---- MODULE Spec2Model ----
(***************************************************************************)
(* A model of scrcap's capture engine: one screen-copy transaction of      *)
(* PlatformWayland::capture_frame (src/platform/sway.rs) against a         *)
(* wlr-screencopy compositor, the pixel converters (src/convert.rs) and    *)
(* the output / region resolution helpers (src/gui_backend.rs).            *)
(***************************************************************************)
EXTENDS Integers, Sequences, FiniteSets, TLC

(***************************************************************************)
(* Bounds of the model.                                                    *)
(***************************************************************************)
\* buffer-format advertisements the compositor sends in one transaction
MaxAdverts == 2
\* informational notifications (Flags, Damage, LinuxDmabuf) per transaction
MaxInfo == 1
\* length of the output lists the resolution helpers are applied to
MaxOutputs == 2
\* full 4-byte pixels in the buffers the converters are applied to
MaxPixels == 2
\* commands sent on the command channel in one session of the front-end
MaxCommands == 3
\* calls of capture_frame in one session
MaxCalls == 2
\* turns of the loops of create_shm_fd before the model stops following it
MaxTurns == 3
\* geometry events the compositor sends for one display object during discovery
MaxGeometries == 2

(***************************************************************************)
(* Integer widths of the program.                                          *)
(***************************************************************************)
\* FrameDescription's width, height and stride are u32
U32Bits == 32

\* A u32 is kept as its four bytes, least significant first, so that every
\* intermediate value of the arithmetic below stays a small integer.
U32Bytes == U32Bits \div 8

\* byte i (from 0) of a natural number below 2^31
ByteOf(v, i) == (v \div (256 ^ i)) % 256

\* the u32 holding the natural number v
U32(v) == [i \in 1..U32Bytes |-> ByteOf(v, i - 1)]

\* the natural number a u32 holds
U32ToNat(t) == t[1] + 256 * t[2] + 65536 * t[3] + 16777216 * t[4]

\* t as i32: two's complement
AsI32(t) ==
    IF t[4] >= 128
    THEN (t[4] - 256) * 16777216 + 65536 * t[3] + 256 * t[2] + t[1]
    ELSE U32ToNat(t)

\* column k (from 0) of the schoolbook product of a and b
MulColumn(a, b, k) ==
    LET T(i) == IF k - i \in 0..(U32Bytes - 1) THEN ByteOf(a, i) * ByteOf(b, k - i) ELSE 0
    IN  T(0) + T(1) + T(2) + T(3)

\* the carry into column k
RECURSIVE MulCarry(_, _, _)
MulCarry(a, b, k) ==
    IF k = 0 THEN 0 ELSE (MulColumn(a, b, k - 1) + MulCarry(a, b, k - 1)) \div 256

\* byte k (from 0) of the full 64-bit product a * b
MulByte(a, b, k) == (MulColumn(a, b, k) + MulCarry(a, b, k)) % 256

\* a * b does not fit a u32
MulOverflows(a, b) == \E k \in U32Bytes..(2 * U32Bytes - 1) : MulByte(a, b, k) # 0

\* a.wrapping_mul(b): the low 32 bits of the product
WrappingMul(a, b) == [i \in 1..U32Bytes |-> MulByte(a, b, i - 1)]

(***************************************************************************)
(* Formats.  The wire side is wl_shm::Format, the program side is          *)
(* FrameFormat; the two conversions are tables, as in the source.          *)
(***************************************************************************)
FrameFormats ==
    {"Xbgr2101010", "Xrgb8888", "Xbgr8888", "Abgr2101010", "Abgr8888", "Argb8888"}

\* wl_shm::Format values the six FrameFormat values stand for
KnownWlFormats ==
    {"WL_SHM_XBGR2101010", "WL_SHM_XRGB8888", "WL_SHM_XBGR8888",
     "WL_SHM_ABGR2101010", "WL_SHM_ABGR8888", "WL_SHM_ARGB8888"}

\* a wl_shm::Format a compositor may advertise that FrameFormat does not have
OtherWlFormats == {"WL_SHM_RGB565"}

WlFormats == KnownWlFormats \cup OtherWlFormats

\* the result of a conversion that ran into panic!
PANIC == "panic"

\* impl From<wl_shm::Format> for FrameFormat: the catch-all arm panics
FrameFormatFrom(value) ==
    CASE value = "WL_SHM_XBGR2101010" -> "Xbgr2101010"
      [] value = "WL_SHM_XRGB8888"    -> "Xrgb8888"
      [] value = "WL_SHM_XBGR8888"    -> "Xbgr8888"
      [] value = "WL_SHM_ABGR2101010" -> "Abgr2101010"
      [] value = "WL_SHM_ABGR8888"    -> "Abgr8888"
      [] value = "WL_SHM_ARGB8888"    -> "Argb8888"
      [] OTHER                        -> PANIC

\* impl Into<wl_shm::Format> for FrameFormat
WlFormatInto(format) ==
    CASE format = "Xbgr2101010" -> "WL_SHM_XBGR2101010"
      [] format = "Xrgb8888"    -> "WL_SHM_XRGB8888"
      [] format = "Xbgr8888"    -> "WL_SHM_XBGR8888"
      [] format = "Abgr2101010" -> "WL_SHM_ABGR2101010"
      [] format = "Argb8888"    -> "WL_SHM_ARGB8888"
      [] format = "Abgr8888"    -> "WL_SHM_ABGR8888"

(***************************************************************************)
(* Pixel converters (src/convert.rs).                                      *)
(***************************************************************************)
SHIFT10BITS_1 == 20
SHIFT10BITS_2 == 10

\* color >> n on an unsigned word
Shr(color, n) == color \div (2 ^ n)

\* convert10_to_8 without the shift: the low 8 bits of the channel
convert10_to_8_low(color) == color % 256

\* fn convert10_to_8(color: u32) -> u8 { ((color >> 2) & 255) as u8 }
convert10_to_8(color) == Shr(color, 2) % 256

\* create_converter with the two 8-bit arms exchanged
create_converter_swapped(format) ==
    CASE format \in {"Xbgr8888", "Abgr8888"}       -> "ConvertRGB8"
      [] format \in {"Xrgb8888", "Argb8888"}       -> "ConvertNone"
      [] format \in {"Xbgr2101010", "Abgr2101010"} -> "ConvertBGR10"

\* create_converter: the converter chosen for a FrameFormat
create_converter(format) ==
    CASE format \in {"Xbgr8888", "Abgr8888"}       -> "ConvertNone"
      [] format \in {"Xrgb8888", "Argb8888"}       -> "ConvertRGB8"
      [] format \in {"Xbgr2101010", "Abgr2101010"} -> "ConvertBGR10"

\* the loop body with the wrong pair exchanged: chunk.swap(0, 3)
SwapChunkAlpha(chunk) == <<chunk[4], chunk[2], chunk[3], chunk[1]>>

\* the body of ConvertRGB8's loop: chunk.swap(0, 2)
SwapChunk(chunk) == <<chunk[3], chunk[2], chunk[1], chunk[4]>>

\* the body of ConvertBGR10's loop on one 4-byte chunk.  The word is kept
\* without its bit 31: the three channels read bits 2..29 only, and the
\* model's integers end below 2^31.
Bgr10Chunk(chunk) ==
    LET pixel == (chunk[4] % 128) * (2 ^ 24) + chunk[3] * (2 ^ 16) + chunk[2] * (2 ^ 8)
                     + chunk[1]
        r == convert10_to_8(Shr(pixel, SHIFT10BITS_1))
        g == convert10_to_8(Shr(pixel, SHIFT10BITS_2))
        b == convert10_to_8(pixel)
    IN  <<b, g, r, 255>>

\* one chunk through the given converter
ConvertChunk(converter, chunk) ==
    CASE converter = "ConvertNone"  -> chunk
      [] converter = "ConvertRGB8"  -> SwapChunk(chunk)
      [] converter = "ConvertBGR10" -> Bgr10Chunk(chunk)

\* convert_inplace keeping the full chunks only: the remainder is lost
convert_inplace_exact(converter, data) ==
    LET full == (Len(data) \div 4) * 4
    IN  [i \in 1..full |->
            LET base == ((i - 1) \div 4) * 4
            IN  ConvertChunk(converter, SubSeq(data, base + 1, base + 4))[i - base]]

\* convert_inplace: data.chunks_exact_mut(4) visits the full 4-byte chunks and
\* leaves a trailing remainder untouched; the length never changes
convert_inplace(converter, data) ==
    LET full == (Len(data) \div 4) * 4
    IN  [i \in 1..Len(data) |->
            IF i > full
            THEN data[i]
            ELSE LET base == ((i - 1) \div 4) * 4
                 IN  ConvertChunk(converter, SubSeq(data, base + 1, base + 4))[i - base]]

\* every convert_inplace returns ColorType::Rgba8
ColorTypeOf(converter) == "Rgba8"

(***************************************************************************)
(* Geometry (src/platform/mod.rs).  Region::new and Region::contains are   *)
(* called by find_output_from_region but their bodies are not part of the  *)
(* source tree; they follow the design's definition of containment.        *)
(***************************************************************************)
\* Region::new(x, y, width, height)
RegionNew(x, y, width, height) == [x |-> x, y |-> y, width |-> width, height |-> height]

\* a point lies within a region's bounds, the bounds included
PointWithin(a, px, py) ==
    /\ a.x <= px /\ px <= a.x + a.width
    /\ a.y <= py /\ py <= a.y + a.height

\* containment with the bounds themselves left out
ContainsStrict(a, b) ==
    /\ a.x < b.x /\ b.x + b.width < a.x + a.width
    /\ a.y < b.y /\ b.y + b.height < a.y + a.height

\* Region::contains: all four corners of b lie within a's bounds
Contains(a, b) ==
    /\ PointWithin(a, b.x, b.y)
    /\ PointWithin(a, b.x + b.width, b.y)
    /\ PointWithin(a, b.x, b.y + b.height)
    /\ PointWithin(a, b.x + b.width, b.y + b.height)

\* Option<Region>: None, and Some(region)
NoRegion == [some |-> FALSE, x |-> 0, y |-> 0, width |-> 0, height |-> 0]
SomeRegion(x, y, width, height) ==
    [some |-> TRUE, x |-> x, y |-> y, width |-> width, height |-> height]

\* struct Output
MkOutput(name, x, y, width, height) ==
    [name |-> name, x |-> x, y |-> y, width |-> width, height |-> height, scale |-> 1]

\* the bounding rectangle find_output_from_region builds for an output
OutputRegion(output) == RegionNew(output.x, output.y, output.width, output.height)

(***************************************************************************)
(* Output resolution (src/gui_backend.rs, and the same code in src/gui.rs) *)
(***************************************************************************)
\* Option<String>
NoName == [some |-> FALSE, value |-> ""]
SomeName(n) == [some |-> TRUE, value |-> n]

\* Result<&Output>: the reference is the position in the slice
OkOutput(i) == [ok |-> TRUE, idx |-> i, err |-> ""]
ErrOutput(e) == [ok |-> FALSE, idx |-> 0, err |-> e]

\* for output in outputs { if output.name == output_name { return Ok(output) } }
RECURSIVE FindNamed(_, _, _)
FindNamed(outs, name, i) ==
    IF i > Len(outs) THEN 0
    ELSE IF outs[i].name = name THEN i
    ELSE FindNamed(outs, name, i + 1)

\* a slip of the loop: the last match is kept instead of the first
RECURSIVE FindNamedLast(_, _, _)
FindNamedLast(outs, name, i) ==
    IF i > Len(outs) THEN 0
    ELSE LET rest == FindNamedLast(outs, name, i + 1)
         IN  IF rest # 0 THEN rest
             ELSE IF outs[i].name = name THEN i ELSE 0

\* get_output with the loop keeping the last match and the default taking
\* the last output
get_output_last(output_name, outs) ==
    IF output_name.some
    THEN LET i == FindNamedLast(outs, output_name.value, 1)
         IN  IF i # 0 THEN OkOutput(i) ELSE ErrOutput("NoOutputNamed")
    ELSE IF outs # <<>> THEN OkOutput(Len(outs))
    ELSE ErrOutput("NoOutputFound")

\* fn get_output(output_name: Option<String>, outputs: &[Output]) -> Result<&Output>
get_output(output_name, outs) ==
    IF output_name.some
    THEN LET i == FindNamed(outs, output_name.value, 1)
         IN  IF i # 0 THEN OkOutput(i) ELSE ErrOutput("NoOutputNamed")
    ELSE IF outs # <<>> THEN OkOutput(1)
    ELSE ErrOutput("NoOutputFound")

\* for output in outputs { if Region::new(..).contains(region) { return Ok(output) } }
RECURSIVE FindContaining(_, _, _)
FindContaining(outs, region, i) ==
    IF i > Len(outs) THEN 0
    ELSE IF Contains(OutputRegion(outs[i]), region) THEN i
    ELSE FindContaining(outs, region, i + 1)

\* a slip of the loop: the last containing output is kept instead of the first
RECURSIVE FindContainingLast(_, _, _)
FindContainingLast(outs, region, i) ==
    IF i > Len(outs) THEN 0
    ELSE LET rest == FindContainingLast(outs, region, i + 1)
         IN  IF rest # 0 THEN rest
             ELSE IF Contains(OutputRegion(outs[i]), region) THEN i ELSE 0

\* find_output_from_region with the loop keeping the last containing output
find_output_from_region_last(region, outs) ==
    LET i == FindContainingLast(outs, region, 1)
    IN  IF i # 0 THEN OkOutput(i) ELSE ErrOutput("NoOutputForRegion")

\* fn find_output_from_region(region: Region, outputs: &[Output]) -> Result<&Output>
find_output_from_region(region, outs) ==
    LET i == FindContaining(outs, region, 1)
    IN  IF i # 0 THEN OkOutput(i) ELSE ErrOutput("NoOutputForRegion")

\* outputs() handing the snapshot back in reverse order
PlatformOutputsRev(outs) == [i \in 1..Len(outs) |-> outs[Len(outs) + 1 - i]]

\* PlatformWayland::outputs: a clone of every output of self.outputs, in order
PlatformOutputs(outs) == [i \in 1..Len(outs) |-> outs[i]]

\* PlatformWayland::find_wl_output: the raw handle (its position in
\* self.outputs) of the first output with the given output's name, 0 for
\* bail!("No output found")
find_wl_output(outs, output) == FindNamed(outs, output.name, 1)

(***************************************************************************)
(* The capture transaction (src/platform/sway.rs): values.                 *)
(***************************************************************************)
\* struct FrameDescription, and the advertisement as it travels (wl format)
MkDesc(format, width, height, stride) ==
    [format |-> format, width |-> width, height |-> height, stride |-> stride]

\* Option<FrameDescription>::None
NoDesc == MkDesc("None", 0, 0, 0)

\* a height for which stride * height leaves the u32 range with stride 4
HugeHeight == 2 ^ (U32Bits - 2) + 1

\* a height for which stride * height fits a u32 but not an i32 with stride 4
LargeHeight == 2 ^ (U32Bits - 3)

\* the advertisements a compositor sends in the model.  Every known
\* wl_shm format and an unknown one occur: four with a 1x1 frame, a frame
\* of two rows with row padding, a frame whose rows are shorter than its
\* pixels, a frame whose byte size does not fit an i32, and one whose byte
\* size does not fit a u32
AdvertSet ==
    {MkDesc(f, 1, 1, 4) :
        f \in {"WL_SHM_ARGB8888", "WL_SHM_XBGR8888", "WL_SHM_ABGR8888"} \cup OtherWlFormats}
        \cup {MkDesc("WL_SHM_XRGB8888", 1, 2, 8),
              MkDesc("WL_SHM_ABGR2101010", 2, 1, 4),
              MkDesc("WL_SHM_XRGB8888", 1, LargeHeight, 4),
              MkDesc("WL_SHM_XBGR2101010", 1, HugeHeight, 4)}

\* pixel values a compositor copies into the buffer
PixelSet == {<<16, 32, 48, 64>>, <<255, 255, 240, 63>>}

\* a buffer of len bytes holding the pixel p over and over
Fill(len, p) == [i \in 1..len |-> p[((i - 1) % 4) + 1]]

\* the bytes of the memory file after set_len(frame_bytes as u64): zeros.
\* The bytes of a file of 2^31 bytes or more are not followed: wl_shm takes
\* the pool size as an i32, so no compositor writes to such a file
FileZeros(frame_bytes) ==
    IF AsI32(frame_bytes) < 0 THEN <<>>
    ELSE Fill(U32ToNat(frame_bytes), <<0, 0, 0, 0>>)

\* events of zwlr_screencopy_frame_v1 as they travel
Ev(type) == [type |-> type, desc |-> NoDesc]
EvBuffer(d) == [type |-> "Buffer", desc |-> d]

\* enum FrameState, inside Option
FrameStates == {"None", "Failed", "Finished"}

(***************************************************************************)
(* The frame event handler (the closure given to frame.quick_assign).      *)
(***************************************************************************)
\* the cells the closure shares with capture_frame, before any event
HandlerInit(formats, state, done) ==
    [formats |-> formats, state |-> state, done |-> done, panicked |-> FALSE,
     ready |-> FALSE, failed |-> FALSE]

\* the closure with the LinuxDmabuf arm pushing a descriptor as well
HandleEventDmabuf(st, ev) ==
    IF st.panicked THEN st
    ELSE CASE ev.type = "Buffer" ->
                  LET f == FrameFormatFrom(ev.desc.format)
                  IN  IF f = PANIC
                      THEN [st EXCEPT !.panicked = TRUE]
                      ELSE [st EXCEPT !.formats =
                               Append(@, MkDesc(f, ev.desc.width, ev.desc.height,
                                                ev.desc.stride))]
           [] ev.type = "LinuxDmabuf" ->
                  [st EXCEPT !.formats = Append(@, MkDesc("Xrgb8888", 0, 0, 0))]
           [] ev.type = "Ready"      -> [st EXCEPT !.state = "Finished", !.ready = TRUE]
           [] ev.type = "Failed"     -> [st EXCEPT !.state = "Failed", !.failed = TRUE]
           [] ev.type = "BufferDone" -> [st EXCEPT !.done = TRUE]
           [] OTHER                  -> st

\* the closure with the Buffer arm also setting frame_buffer_done
HandleEventEarlyDone(st, ev) ==
    IF st.panicked THEN st
    ELSE CASE ev.type = "Buffer" ->
                  LET f == FrameFormatFrom(ev.desc.format)
                  IN  IF f = PANIC
                      THEN [st EXCEPT !.panicked = TRUE]
                      ELSE [st EXCEPT !.done = TRUE,
                                      !.formats =
                               Append(@, MkDesc(f, ev.desc.width, ev.desc.height,
                                                ev.desc.stride))]
           [] ev.type = "Ready"      -> [st EXCEPT !.state = "Finished", !.ready = TRUE]
           [] ev.type = "Failed"     -> [st EXCEPT !.state = "Failed", !.failed = TRUE]
           [] ev.type = "BufferDone" -> [st EXCEPT !.done = TRUE]
           [] OTHER                  -> st

\* one event through the closure; after a panic nothing more is handled
HandleEvent(st, ev) ==
    IF st.panicked THEN st
    ELSE CASE ev.type = "Buffer" ->
                  LET f == FrameFormatFrom(ev.desc.format)
                  IN  IF f = PANIC
                      THEN [st EXCEPT !.panicked = TRUE]
                      ELSE [st EXCEPT !.formats =
                               Append(@, MkDesc(f, ev.desc.width, ev.desc.height,
                                                ev.desc.stride))]
           [] ev.type = "Ready"      -> [st EXCEPT !.state = "Finished", !.ready = TRUE]
           [] ev.type = "Failed"     -> [st EXCEPT !.state = "Failed", !.failed = TRUE]
           [] ev.type = "BufferDone" -> [st EXCEPT !.done = TRUE]
           [] OTHER                  -> st

\* the cells of the call before carried over into the next call
FrameCellsKept(formats, state, done) ==
    [formats |-> formats, state |-> state, done |-> done]

\* lines 211-213: frame_formats, frame_state and frame_buffer_done are
\* created by every call; formats, state and done are what the call before
\* left in its own cells, which went out of scope with it
FrameCells(formats, state, done) ==
    [formats |-> <<>>, state |-> "None", done |-> FALSE]

\* event_queue.dispatch: the batch of pending events, in arrival order
RECURSIVE HandleEvents(_, _)
HandleEvents(st, evs) ==
    IF evs = <<>> THEN st
    ELSE HandleEvents(HandleEvent(st, Head(evs)), Tail(evs))

(***************************************************************************)
(* Format selection.                                                       *)
(***************************************************************************)
\* the matches! of the selection closure
Qualifies(format) ==
    format \in {"Xbgr2101010", "Abgr2101010", "Argb8888", "Xrgb8888", "Xbgr8888"}

\* iter().find(..): the position of the first qualifying descriptor, 0 for None
RECURSIVE FindFormat(_, _)
FindFormat(formats, i) ==
    IF i > Len(formats) THEN 0
    ELSE IF Qualifies(formats[i].format) THEN i
    ELSE FindFormat(formats, i + 1)

\* a slip of the search: the last qualifying descriptor wins
RECURSIVE FindFormatLast(_, _)
FindFormatLast(formats, i) ==
    IF i > Len(formats) THEN 0
    ELSE LET rest == FindFormatLast(formats, i + 1)
         IN  IF rest # 0 THEN rest
             ELSE IF Qualifies(formats[i].format) THEN i ELSE 0

SelectFormatLast(formats) ==
    LET i == FindFormatLast(formats, 1)
    IN  IF i = 0 THEN NoDesc ELSE formats[i]

\* a slip of the selection: with no qualifying descriptor the first
\* advertised one is taken instead of failing
SelectFormatDefault(formats) ==
    LET i == FindFormat(formats, 1)
    IN  IF i # 0 THEN formats[i]
        ELSE IF formats # <<>> THEN formats[1] ELSE MkDesc("Xrgb8888", 1, 1, 4)

\* frame_formats.borrow().iter().find(..).copied()
SelectFormat(formats) ==
    LET i == FindFormat(formats, 1)
    IN  IF i = 0 THEN NoDesc ELSE formats[i]

\* let frame_bytes = frame_format.stride * frame_format.height, on u32, in a
\* build without overflow checks
FrameBytes(desc) == WrappingMul(desc.stride, desc.height)

\* the multiplication leaves the u32 range: a build with overflow checks panics
FrameBytesOverflows(desc) == MulOverflows(desc.stride, desc.height)

(***************************************************************************)
(* Results and requests.                                                   *)
(***************************************************************************)
\* what a call produced: nothing yet, an error, or a Frame
MkOutcome(kind, err, desc, color, data) ==
    [kind |-> kind, err |-> err, frame_format |-> desc, frame_color_type |-> color,
     frame_mmap |-> data]
NoOutcome == MkOutcome("None", "", NoDesc, "", <<>>)
ErrOutcome(e) == MkOutcome("Err", e, NoDesc, "", <<>>)

\* a request as it is sent to the compositor
MkReq(type, output, overlay, x, y, width, height, stride, size, format) ==
    [type |-> type, output |-> output, overlay |-> overlay, x |-> x, y |-> y,
     width |-> width, height |-> height, stride |-> stride, size |-> size,
     format |-> format]

\* overlay_cursor as i32
BoolAsI32(b) == IF b THEN 1 ELSE 0

\* the region request sent with the region's global coordinates
CaptureRequestOfGlobal(handle, output, overlay_cursor, region) ==
    IF region.some
    THEN MkReq("capture_output_region", handle, BoolAsI32(overlay_cursor),
               region.x, region.y, region.width, region.height, 0, 0, "")
    ELSE MkReq("capture_output", handle, BoolAsI32(overlay_cursor), 0, 0, 0, 0, 0, 0, "")

\* lines 195-209: capture_output_region for Some(region), capture_output for None
CaptureRequestOf(handle, output, overlay_cursor, region) ==
    IF region.some
    THEN MkReq("capture_output_region", handle, BoolAsI32(overlay_cursor),
               region.x - output.x, region.y - output.y, region.width, region.height,
               0, 0, "")
    ELSE MkReq("capture_output", handle, BoolAsI32(overlay_cursor), 0, 0, 0, 0, 0, 0, "")

\* shm.create_pool(mem_fd, frame_bytes as i32)
CreatePoolReq(frame_bytes) ==
    MkReq("create_pool", 0, 0, 0, 0, 0, 0, 0, AsI32(frame_bytes), "")

\* shm_pool.create_buffer(0, width as i32, height as i32, stride as i32, format.into())
CreateBufferReq(desc) ==
    MkReq("create_buffer", 0, 0, 0, 0, AsI32(U32(desc.width)), AsI32(U32(desc.height)),
          AsI32(U32(desc.stride)), 0, WlFormatInto(desc.format))

\* frame.copy(&buffer)
CopyReq == MkReq("copy", 0, 0, 0, 0, 0, 0, 0, 0, "")

\* try_read_frame with a Failed state taken for a finished copy
TryReadFrameIgnoreFailed(state, desc, mapOk, data) ==
    IF state = "None" THEN NoOutcome
    ELSE IF ~mapOk THEN ErrOutcome("Map")
    ELSE MkOutcome("Frame", "", desc, ColorTypeOf(create_converter(desc.format)),
                   convert_inplace(create_converter(desc.format), data))

\* try_read_frame running the converter a second time over the mapping
TryReadFrameTwice(state, desc, mapOk, data) ==
    CASE state = "None"   -> NoOutcome
      [] state = "Failed" -> ErrOutcome("FrameCopy")
      [] state = "Finished" ->
            IF ~mapOk THEN ErrOutcome("Map")
            ELSE LET converter == create_converter(desc.format)
                 IN  MkOutcome("Frame", "", desc, ColorTypeOf(converter),
                               convert_inplace(converter, convert_inplace(converter, data)))

\* try_read_frame taking a missing state for a finished copy
TryReadFrameEager(state, desc, mapOk, data) ==
    IF state = "Failed" THEN ErrOutcome("FrameCopy")
    ELSE IF ~mapOk THEN ErrOutcome("Map")
    ELSE MkOutcome("Frame", "", desc, ColorTypeOf(create_converter(desc.format)),
                   convert_inplace(create_converter(desc.format), data))

\* fn try_read_frame: Ok(None) without a recorded state, the FrameCopy error
\* for Failed, and for Finished the mapping (which may fail) converted in place
TryReadFrame(state, desc, mapOk, data) ==
    CASE state = "None"   -> NoOutcome
      [] state = "Failed" -> ErrOutcome("FrameCopy")
      [] state = "Finished" ->
            IF ~mapOk THEN ErrOutcome("Map")
            ELSE LET converter == create_converter(desc.format)
                 IN  MkOutcome("Frame", "", desc, ColorTypeOf(converter),
                               convert_inplace(converter, data))

\* mem_file goes out of scope without closing the descriptor
DropMemFileLeak(closes) == closes

\* mem_file = File::from_raw_fd(mem_fd) owns the descriptor: leaving
\* capture_frame drops it, which closes the descriptor
DropMemFile(closes) == closes + 1

(***************************************************************************)
(* State.                                                                  *)
(***************************************************************************)
VARIABLES
    outputs,            \* PlatformWayland.outputs / the slice given to get_output
    arg_output,         \* capture_frame's output argument
    arg_overlay_cursor, \* capture_frame's overlay_cursor argument
    arg_region,         \* capture_frame's region argument
    pc,                 \* where capture_frame stands
    panic,              \* why the thread panicked, "" if it did not
    frame_formats,      \* Rc<RefCell<Vec<FrameDescription>>>
    frame_state,        \* Rc<RefCell<Option<FrameState>>>
    frame_buffer_done,  \* Rc<AtomicBool>
    frame_format,       \* the selected descriptor
    requests,           \* the requests sent to the compositor, in order
    wire,               \* frame events sent by the compositor, not yet dispatched
    comp,               \* the compositor's side of the frame object
    conn,               \* the connection: "up" or "broken"
    advertised,         \* the advertisements the compositor has sent
    infoSent,           \* the informational events the compositor has sent
    fdOpens,            \* descriptors create_shm_fd has returned
    fdCloses,           \* times the descriptor has been closed
    fileLen,            \* length of the memory file after set_len, as a u32
    shmData,            \* bytes of the memory file
    copied,             \* the bytes the compositor copied into the buffer
    mapped,             \* a mapping of the memory file exists
    outcome,            \* what capture_frame returned
    returns,            \* times capture_frame has returned
    frameAlive,         \* the returned Frame has not been dropped
    readyRecorded,      \* the Ready arm of the handler has run
    failedRecorded,     \* the Failed arm of the handler has run
    q_name,             \* get_output's output_name argument
    q_bounds,           \* Region::contains' receiver
    q_region,           \* Region::contains' argument
    q_result,           \* what the last resolution call returned
    c_format,           \* the FrameFormat given to create_converter
    c_data,             \* the buffer given to convert_inplace
    c_out,              \* the color tag returned and the buffer afterwards
    calls,              \* calls of capture_frame entered in this session
    prev,               \* what the session's first transaction received and returned
    outputs_ret,        \* what the last call of outputs() returned
    cmd_chan,           \* commands sent on cmd_tx, not yet received by the worker
    res_chan,           \* results sent on res_tx, not yet received by the front-end
    worker,             \* where the backend worker thread stands
    cur_cmd,            \* the command the worker is handling
    ui,                 \* the Scrcap enum of the front-end, or "panicked"
    ui_pc,              \* where the UI thread stands inside update
    ui_mode,            \* State.current_screenshot_mode
    sentCmds,           \* the commands sent so far, in order
    recvCmds,           \* the commands the worker has received, in order
    doneCmds,           \* commands whose handling has completed
    failedCmds,         \* capture commands whose handling met an error
    shm_pc,             \* where create_shm_fd stands
    sys_time,           \* create_shm_fd's sys_time, as its subsec_nanos
    mem_file_handle,    \* create_shm_fd's mem_file_handle
    shm_errno,          \* what the last system call of create_shm_fd returned
    shm_sealed,         \* what fcntl(F_ADD_SEALS) returned
    shm_ret,            \* what create_shm_fd returned
    shm_names,          \* the names that exist in the shared-memory filesystem
    shm_created,        \* the names this call of create_shm_fd has created
    shm_fds,            \* descriptors this call has opened and not closed
    shm_turns,          \* turns of the two loops of create_shm_fd so far
    displays,           \* the display objects the compositor advertises
    disc_pc,            \* where PlatformWayland::new stands
    wayland_outputs,    \* new's wayland_outputs
    final_outputs,      \* new's final_wayland_outputs / self.wayland_outputs
    cap_req,            \* the capture request sent for an Output of the snapshot
    enc_frame,          \* the Frame given to write_to_file
    enc_out             \* what write_to_file handed to the Pnm encoder

callVars == <<outputs, arg_output, arg_overlay_cursor, arg_region>>
txVars == <<frame_formats, frame_state, frame_buffer_done>>
compVars == <<wire, comp, conn, advertised, infoSent>>
memVars == <<fdOpens, fdCloses, fileLen, shmData, copied, mapped>>
retVars == <<outcome, returns, frameAlive>>
ghostVars == <<readyRecorded, failedRecorded>>
qVars == <<q_name, q_bounds, q_region, q_result>>
convVars == <<c_format, c_data, c_out>>
sessVars == <<calls, prev, outputs_ret>>
guiVars == <<cmd_chan, res_chan, worker, cur_cmd, ui, ui_pc, ui_mode, sentCmds, recvCmds,
             doneCmds, failedCmds>>
shmVars == <<shm_pc, sys_time, mem_file_handle, shm_errno, shm_sealed, shm_ret, shm_names,
             shm_created, shm_fds, shm_turns>>
discVars == <<displays, disc_pc, wayland_outputs, final_outputs, cap_req>>
encVars == <<enc_frame, enc_out>>
sysVars == <<shmVars, discVars, encVars>>
otherVars == <<qVars, convVars, sessVars, guiVars, sysVars>>

vars == <<callVars, pc, panic, txVars, frame_format, requests, compVars, memVars,
          retVars, ghostVars, otherVars>>

(***************************************************************************)
(* Initial states.                                                         *)
(***************************************************************************)
\* the snapshot PlatformWayland::new left in self.outputs
SessionOutputs ==
    <<MkOutput("DP-1", 0, 0, 1920, 1080), MkOutput("eDP-1", 1920, 0, 1280, 720)>>

\* capture_frame's arguments
MkArgs(output, overlay_cursor, region) ==
    [output |-> output, overlay_cursor |-> overlay_cursor, region |-> region]

\* the calls of the model: a whole output, a region inside an output that
\* does not lie at the origin, a degenerate region, a region that exceeds
\* the output, and an output the session has not discovered
CallArgs ==
    {MkArgs(SessionOutputs[1], FALSE, NoRegion),
     MkArgs(SessionOutputs[2], TRUE, SomeRegion(2000, 100, 300, 200)),
     MkArgs(SessionOutputs[1], FALSE, SomeRegion(0, 0, 0, 0)),
     MkArgs(SessionOutputs[1], TRUE, SomeRegion(1900, 1060, 50, 50)),
     MkArgs(MkOutput("HDMI-1", 0, 0, 800, 600), FALSE, NoRegion)}

NoResult == [op |-> "none", ok |-> FALSE, idx |-> 0, err |-> ""]

\* the transaction before capture_frame is entered
TxIdle(start) ==
    /\ pc = start
    /\ panic = ""
    /\ frame_formats = <<>>
    /\ frame_state = "None"
    /\ frame_buffer_done = FALSE
    /\ frame_format = NoDesc
    /\ requests = <<>>
    /\ wire = <<>>
    /\ comp = "idle"
    /\ conn = "up"
    /\ advertised = <<>>
    /\ infoSent = <<>>
    /\ fdOpens = 0
    /\ fdCloses = 0
    /\ fileLen = U32(0)
    /\ shmData = <<>>
    /\ copied = <<>>
    /\ mapped = FALSE
    /\ outcome = NoOutcome
    /\ returns = 0
    /\ frameAlive = FALSE
    /\ readyRecorded = FALSE
    /\ failedRecorded = FALSE

\* no resolution helper has been called
ResolveIdle ==
    /\ q_name = NoName
    /\ q_bounds = RegionNew(0, 0, 0, 0)
    /\ q_region = RegionNew(0, 0, 0, 0)
    /\ q_result = NoResult

\* what convert_inplace produced: nothing yet
NoConv == [done |-> FALSE, color |-> "", data |-> <<>>]

\* no converter has been called
ConvIdle ==
    /\ c_format = "Xrgb8888"
    /\ c_data = <<>>
    /\ c_out = NoConv

\* the record of a session's first transaction, before it has ended
NoPrev == [advertised |-> <<>>, kind |-> "None", err |-> "", frame_format |-> NoDesc,
           frame_color_type |-> ""]

\* outputs() has not been called
NoOutputsRet == [called |-> FALSE, value |-> <<>>]

\* a session in its first call of capture_frame
SessIdle ==
    /\ calls = 1
    /\ prev = NoPrev
    /\ outputs_ret = NoOutputsRet

\* Command of src/gui_backend.rs; no command
NoCmd == [type |-> "None", name |-> ""]

\* no front-end and no backend worker run
GuiIdle ==
    /\ cmd_chan = <<>>
    /\ res_chan = <<>>
    /\ worker = "none"
    /\ cur_cmd = NoCmd
    /\ ui = "none"
    /\ ui_pc = "idle"
    /\ ui_mode = "Screen"
    /\ sentCmds = <<>>
    /\ recvCmds = <<>>
    /\ doneCmds = 0
    /\ failedCmds = 0

\* Result<RawFd> of create_shm_fd; nothing returned yet
NoShmRet == [ok |-> FALSE, fd |-> "", err |-> ""]

\* create_shm_fd has not been called
ShmIdle ==
    /\ shm_pc = "idle"
    /\ sys_time = 0
    /\ mem_file_handle = <<>>
    /\ shm_errno = ""
    /\ shm_sealed = ""
    /\ shm_ret = NoShmRet
    /\ shm_names = {}
    /\ shm_created = {}
    /\ shm_fds = {}
    /\ shm_turns = 0

\* no capture request has been asked for
NoCapReq == [asked |-> FALSE, given |-> 0, sent |-> 0, ok |-> FALSE]

\* PlatformWayland::new has not been called
DiscIdle ==
    /\ displays = <<>>
    /\ disc_pc = "idle"
    /\ wayland_outputs = <<>>
    /\ final_outputs = <<>>
    /\ cap_req = NoCapReq

\* write_to_file has not been called
EncIdle ==
    /\ enc_frame = [frame_format |-> NoDesc, frame_color_type |-> "", frame_mmap |-> <<>>]
    /\ enc_out = [done |-> FALSE, data |-> <<>>]

Init ==
    /\ outputs = SessionOutputs
    /\ \E a \in CallArgs :
         /\ arg_output = a.output
         /\ arg_overlay_cursor = a.overlay_cursor
         /\ arg_region = a.region
    /\ TxIdle("start")
    /\ ResolveIdle
    /\ ConvIdle
    /\ SessIdle
    /\ GuiIdle
    /\ ShmIdle
    /\ DiscIdle
    /\ EncIdle

(***************************************************************************)
(* capture_frame, step by step.                                            *)
(***************************************************************************)
\* capture_frame returns out; with owned, mem_file is in scope and dropped
Return(out, owned) ==
    /\ pc' = "done"
    /\ outcome' = out
    /\ returns' = returns + 1
    /\ fdCloses' = IF owned THEN DropMemFile(fdCloses) ELSE fdCloses

\* lines 192-261: find the wl_output, send the capture request, set up the
\* cells and the handler
CaptureRequest ==
    /\ pc = "start"
    /\ LET handle == find_wl_output(outputs, arg_output)
       IN  IF handle = 0
           THEN /\ Return(ErrOutcome("NoOutput"), FALSE)
                /\ UNCHANGED <<requests, comp, txVars, frameAlive>>
           ELSE /\ requests' = Append(requests,
                        CaptureRequestOf(handle, arg_output, arg_overlay_cursor,
                                         arg_region))
                /\ comp' = "adv"
                /\ LET cells == FrameCells(frame_formats, frame_state,
                                           frame_buffer_done)
                   IN  /\ frame_formats' = cells.formats
                       /\ frame_state' = cells.state
                       /\ frame_buffer_done' = cells.done
                /\ pc' = "collect"
                /\ UNCHANGED <<outcome, returns, fdCloses, frameAlive>>
    /\ UNCHANGED <<callVars, panic, frame_format, wire, conn, advertised, infoSent,
                   fdOpens, fileLen, shmData, copied, mapped, ghostVars, otherVars>>

\* lines 265-268, one turn of the loop: dispatch runs the handler over the
\* pending events of the frame, which may be none when it returns after
\* other protocol traffic; the loop ends once frame_buffer_done is set
DispatchCollect ==
    /\ pc = "collect"
    /\ wire # <<>> \/ conn = "up"
    /\ LET st == HandleEvents(
                     HandlerInit(frame_formats, frame_state, frame_buffer_done), wire)
       IN  /\ frame_formats' = st.formats
           /\ frame_state' = st.state
           /\ frame_buffer_done' = st.done
           /\ readyRecorded' = (readyRecorded \/ st.ready)
           /\ failedRecorded' = (failedRecorded \/ st.failed)
           /\ panic' = IF st.panicked THEN "format" ELSE panic
           /\ pc' = IF st.panicked THEN "panicked"
                    ELSE IF st.done THEN "setup" ELSE "collect"
    /\ wire' = <<>>
    /\ UNCHANGED <<callVars, frame_format, requests, comp, conn, advertised, infoSent,
                   memVars, retVars, otherVars>>

\* lines 266-267: dispatch fails on a broken connection and ? returns the error
DispatchCollectError ==
    /\ pc = "collect"
    /\ wire = <<>>
    /\ conn = "broken"
    /\ Return(ErrOutcome("Dispatch"), FALSE)
    /\ UNCHANGED <<callVars, panic, txVars, frame_format, requests, compVars, fdOpens,
                   fileLen, shmData, copied, mapped, frameAlive, ghostVars, otherVars>>

\* lines 293-298: no descriptor qualifies
SetupNoFormat ==
    /\ pc = "setup"
    /\ SelectFormat(frame_formats) = NoDesc
    /\ Return(ErrOutcome("UnsupportedFormat"), FALSE)
    /\ UNCHANGED <<callVars, panic, txVars, frame_format, requests, compVars, fdOpens,
                   fileLen, shmData, copied, mapped, frameAlive, ghostVars, otherVars>>

\* line 301 in a build with overflow checks: the multiplication panics
SetupOverflowPanic ==
    /\ pc = "setup"
    /\ SelectFormat(frame_formats) # NoDesc
    /\ FrameBytesOverflows(SelectFormat(frame_formats))
    /\ frame_format' = SelectFormat(frame_formats)
    /\ pc' = "panicked"
    /\ panic' = "overflow"
    /\ UNCHANGED <<callVars, txVars, requests, compVars, memVars, retVars, ghostVars,
                   otherVars>>

\* line 304: create_shm_fd fails
SetupShmFdFails ==
    /\ pc = "setup"
    /\ SelectFormat(frame_formats) # NoDesc
    /\ frame_format' = SelectFormat(frame_formats)
    /\ Return(ErrOutcome("Alloc"), FALSE)
    /\ UNCHANGED <<callVars, panic, txVars, requests, compVars, fdOpens, fileLen,
                   shmData, copied, mapped, frameAlive, ghostVars, otherVars>>

\* the error of set_len looked at only after the pool has been created
SetupSetLenFailsLate ==
    /\ pc = "setup"
    /\ SelectFormat(frame_formats) # NoDesc
    /\ frame_format' = SelectFormat(frame_formats)
    /\ fdOpens' = fdOpens + 1
    /\ requests' = Append(requests, CreatePoolReq(FrameBytes(frame_format')))
    /\ Return(ErrOutcome("Truncate"), TRUE)
    /\ UNCHANGED <<callVars, panic, txVars, compVars, fileLen, shmData,
                   copied, mapped, frameAlive, ghostVars, otherVars>>

\* line 306: set_len fails on the descriptor create_shm_fd returned
SetupSetLenFails ==
    /\ pc = "setup"
    /\ SelectFormat(frame_formats) # NoDesc
    /\ frame_format' = SelectFormat(frame_formats)
    /\ fdOpens' = fdOpens + 1
    /\ Return(ErrOutcome("Truncate"), TRUE)
    /\ UNCHANGED <<callVars, panic, txVars, requests, compVars, fileLen, shmData,
                   copied, mapped, frameAlive, ghostVars, otherVars>>

\* line 309: the compositor has no wl_shm global
SetupNoShmGlobal ==
    /\ pc = "setup"
    /\ SelectFormat(frame_formats) # NoDesc
    /\ frame_format' = SelectFormat(frame_formats)
    /\ fdOpens' = fdOpens + 1
    /\ fileLen' = FrameBytes(frame_format')
    /\ shmData' = FileZeros(fileLen')
    /\ Return(ErrOutcome("NoShm"), TRUE)
    /\ UNCHANGED <<callVars, panic, txVars, requests, compVars, copied, mapped,
                   frameAlive, ghostVars, otherVars>>

\* lines 300-320: size the memory file, create pool and buffer, send copy
SetupCopy ==
    /\ pc = "setup"
    /\ SelectFormat(frame_formats) # NoDesc
    /\ frame_format' = SelectFormat(frame_formats)
    /\ fdOpens' = fdOpens + 1
    /\ fileLen' = FrameBytes(frame_format')
    /\ shmData' = FileZeros(fileLen')
    /\ requests' = requests \o <<CreatePoolReq(FrameBytes(frame_format')),
                                 CreateBufferReq(frame_format'), CopyReq>>
    /\ comp' = IF comp = "await_copy" THEN "copying" ELSE comp
    /\ pc' = "read"
    /\ UNCHANGED <<callVars, panic, txVars, wire, conn, advertised, infoSent, fdCloses,
                   copied, mapped, retVars, ghostVars, otherVars>>

\* read_frame, one turn of the loop (lines 406-419): dispatch the pending
\* events of the frame, which may be none, then try_read_frame takes the
\* recorded state
ReadFrame ==
    /\ pc = "read"
    /\ wire # <<>> \/ conn = "up"
    /\ \E mapOk \in BOOLEAN :
         LET st == HandleEvents(
                       HandlerInit(frame_formats, frame_state, frame_buffer_done), wire)
             r == TryReadFrame(st.state, frame_format, mapOk, shmData)
         IN  /\ frame_formats' = st.formats
             /\ frame_buffer_done' = st.done
             /\ readyRecorded' = (readyRecorded \/ st.ready)
             /\ failedRecorded' = (failedRecorded \/ st.failed)
             /\ IF st.panicked
                THEN /\ pc' = "panicked"
                     /\ panic' = "format"
                     /\ frame_state' = st.state
                     /\ UNCHANGED <<outcome, returns, fdCloses, mapped, frameAlive,
                                    shmData>>
                ELSE IF r.kind = "None"
                THEN /\ pc' = "read"
                     /\ frame_state' = st.state
                     /\ UNCHANGED <<panic, outcome, returns, fdCloses, mapped,
                                    frameAlive, shmData>>
                ELSE /\ frame_state' = "None"
                     /\ Return(r, TRUE)
                     /\ mapped' = (r.kind = "Frame")
                     /\ frameAlive' = (r.kind = "Frame")
                     /\ shmData' = IF r.kind = "Frame" THEN r.frame_mmap ELSE shmData
                     /\ UNCHANGED panic
    /\ wire' = <<>>
    /\ UNCHANGED <<callVars, frame_format, requests, comp, conn, advertised, infoSent,
                   fdOpens, fileLen, copied, otherVars>>

\* line 409: dispatch fails on a broken connection and ? returns the error
ReadFrameError ==
    /\ pc = "read"
    /\ wire = <<>>
    /\ conn = "broken"
    /\ Return(ErrOutcome("Dispatch"), TRUE)
    /\ UNCHANGED <<callVars, panic, txVars, frame_format, requests, compVars, fdOpens,
                   fileLen, shmData, copied, mapped, frameAlive, ghostVars, otherVars>>

\* the caller drops the Frame (or an encoder consumes it): MmapMut unmaps
DropFrame ==
    /\ pc = "done"
    /\ outcome.kind = "Frame"
    /\ frameAlive
    /\ frameAlive' = FALSE
    /\ mapped' = FALSE
    /\ UNCHANGED <<callVars, pc, panic, txVars, frame_format, requests, compVars,
                   fdOpens, fdCloses, fileLen, shmData, copied, outcome, returns,
                   ghostVars, otherVars>>

(***************************************************************************)
(* The compositor's side of the frame object (the events the handler of    *)
(* lines 219-260 receives), following the wlr-screencopy protocol: buffer  *)
(* advertisements, then BufferDone, then after copy either Ready or        *)
(* Failed; Failed may come at any point and nothing follows it.            *)
(***************************************************************************)
\* a transaction is under way on a live connection
InTx == pc \in {"collect", "setup", "read"} /\ conn = "up"

\* the request of the given type in the log
ReqOf(type) == requests[CHOOSE i \in 1..Len(requests) : requests[i].type = type]

\* the largest i32
INT32_MAX == (2 ^ (U32Bits - 2) - 1) * 2 + 1

\* the compositor checks the buffer given to copy: it must lie within its
\* pool and be one of the advertised shapes
BufferAccepted ==
    LET pool == ReqOf("create_pool")
        buf == ReqOf("create_buffer")
    IN  /\ buf.width > 0 /\ buf.height > 0 /\ buf.stride > 0
        /\ buf.height <= INT32_MAX \div buf.stride
        /\ buf.stride * buf.height <= pool.size
        /\ \E i \in 1..Len(advertised) :
              advertised[i] = MkDesc(buf.format, buf.width, buf.height, buf.stride)

\* the compositor answers a repeated transaction with the advertisements
\* of the session's first one
Replays(d) ==
    \/ calls = 1
    \/ /\ Len(advertised) < Len(prev.advertised)
       /\ d = prev.advertised[Len(advertised) + 1]

\* Event::Buffer with a descriptor of the set S
CompBufferOf(S) ==
    /\ InTx
    /\ comp = "adv"
    /\ Len(advertised) < MaxAdverts
    /\ \E d \in S :
         /\ Replays(d)
         /\ wire' = Append(wire, EvBuffer(d))
         /\ advertised' = Append(advertised, d)
    /\ UNCHANGED <<callVars, pc, panic, txVars, frame_format, requests, comp, conn,
                   infoSent, memVars, retVars, ghostVars, otherVars>>

\* Event::Buffer
CompBuffer == CompBufferOf(AdvertSet)

\* Event::LinuxDmabuf while advertising, Event::Flags and Event::Damage
\* after copy
CompInfo ==
    /\ InTx
    /\ Len(infoSent) < MaxInfo
    /\ \E k \in {"LinuxDmabuf", "Flags", "Damage"} :
         /\ (k = "LinuxDmabuf" /\ comp = "adv") \/ (k # "LinuxDmabuf" /\ comp = "copying")
         /\ wire' = Append(wire, Ev(k))
         /\ infoSent' = Append(infoSent, k)
    /\ UNCHANGED <<callVars, pc, panic, txVars, frame_format, requests, comp, conn,
                   advertised, memVars, retVars, ghostVars, otherVars>>

\* Event::BufferDone
CompBufferDone ==
    /\ InTx
    /\ comp = "adv"
    /\ wire' = Append(wire, Ev("BufferDone"))
    /\ comp' = "await_copy"
    /\ UNCHANGED <<callVars, pc, panic, txVars, frame_format, requests, conn,
                   advertised, infoSent, memVars, retVars, ghostVars, otherVars>>

\* Event::Failed: the compositor gives up the frame and sends nothing more
CompFailed ==
    /\ InTx
    /\ comp \in {"adv", "await_copy", "copying"}
    /\ wire' = Append(wire, Ev("Failed"))
    /\ comp' = "dead"
    /\ UNCHANGED <<callVars, pc, panic, txVars, frame_format, requests, conn,
                   advertised, infoSent, memVars, retVars, ghostVars, otherVars>>

\* Event::Ready: the compositor has copied the pixels into the buffer
CompReady ==
    /\ InTx
    /\ comp = "copying"
    /\ BufferAccepted
    /\ \E p \in PixelSet :
         /\ shmData' = Fill(U32ToNat(fileLen), p)
         /\ copied' = Fill(U32ToNat(fileLen), p)
    /\ wire' = Append(wire, Ev("Ready"))
    /\ comp' = "finished"
    /\ UNCHANGED <<callVars, pc, panic, txVars, frame_format, requests, conn,
                   advertised, infoSent, fdOpens, fdCloses, fileLen, mapped, retVars,
                   ghostVars, otherVars>>

\* the compositor answers a buffer it does not accept with a protocol
\* error, which ends the connection
CompRejectBuffer ==
    /\ InTx
    /\ comp = "copying"
    /\ ~BufferAccepted
    /\ conn' = "broken"
    /\ comp' = "dead"
    /\ UNCHANGED <<callVars, pc, panic, txVars, frame_format, requests, wire,
                   advertised, infoSent, memVars, retVars, ghostVars, otherVars>>

\* the connection to the compositor is lost.  dispatch hands over the events
\* that arrived before the loss and fails on the next call, so a loss with
\* events pending is the loss right after their dispatch.
ConnLost ==
    /\ InTx
    /\ comp \in {"adv", "await_copy", "copying"}
    /\ wire = <<>>
    /\ conn' = "broken"
    /\ comp' = "dead"
    /\ UNCHANGED <<callVars, pc, panic, txVars, frame_format, requests, wire,
                   advertised, infoSent, memVars, retVars, ghostVars, otherVars>>

Next ==
    \/ CaptureRequest
    \/ DispatchCollect
    \/ DispatchCollectError
    \/ SetupNoFormat
    \/ SetupOverflowPanic
    \/ SetupShmFdFails
    \/ SetupSetLenFails
    \/ SetupNoShmGlobal
    \/ SetupCopy
    \/ ReadFrame
    \/ ReadFrameError
    \/ DropFrame
    \/ CompBuffer
    \/ CompInfo
    \/ CompBufferDone
    \/ CompFailed
    \/ CompReady
    \/ CompRejectBuffer
    \/ ConnLost

Spec == Init /\ [][Next]_vars

(***************************************************************************)
(* A session: capture_frame called again on the same PlatformWayland, and  *)
(* outputs() called between the calls.                                     *)
(***************************************************************************)
\* the calls a session repeats: a whole output, and a region of an output
SessionArgs ==
    {MkArgs(SessionOutputs[1], FALSE, NoRegion),
     MkArgs(SessionOutputs[2], TRUE, SomeRegion(2000, 100, 300, 200))}

\* the advertisements of the compositor of a session: two qualifying
\* formats of different shapes and the frame whose byte size does not fit
\* a u32
SessionAdverts ==
    {MkDesc("WL_SHM_XRGB8888", 1, 2, 8), MkDesc("WL_SHM_XBGR8888", 1, 1, 4),
     MkDesc("WL_SHM_XBGR2101010", 1, HugeHeight, 4)}

\* Event::Buffer in a session
CompBufferSession == CompBufferOf(SessionAdverts)

InitSession ==
    /\ outputs = SessionOutputs
    /\ \E a \in SessionArgs :
         /\ arg_output = a.output
         /\ arg_overlay_cursor = a.overlay_cursor
         /\ arg_region = a.region
    /\ TxIdle("start")
    /\ ResolveIdle
    /\ ConvIdle
    /\ SessIdle
    /\ GuiIdle
    /\ ShmIdle
    /\ DiscIdle
    /\ EncIdle

\* what is remembered of the first transaction
PrevOf(adverts, out) ==
    [advertised |-> adverts, kind |-> out.kind, err |-> out.err,
     frame_format |-> out.frame_format, frame_color_type |-> out.frame_color_type]

\* the caller, having consumed the result, calls capture_frame again with
\* the same output and region.  The locals of the call before are gone;
\* its cells stay behind with their last values, alive only in the handler
\* of the old frame object, which receives whatever the compositor still
\* sends for that object.  The connection is the session's.
CallAgain ==
    /\ pc = "done"
    /\ ~frameAlive
    /\ calls < MaxCalls
    /\ calls' = calls + 1
    /\ prev' = IF calls = 1 THEN PrevOf(advertised, outcome) ELSE prev
    /\ outputs_ret' = NoOutputsRet
    /\ pc' = "start"
    /\ frame_format' = NoDesc
    /\ requests' = <<>>
    /\ wire' = <<>>
    /\ comp' = "idle"
    /\ advertised' = <<>>
    /\ infoSent' = <<>>
    /\ fdOpens' = 0
    /\ fdCloses' = 0
    /\ fileLen' = U32(0)
    /\ shmData' = <<>>
    /\ copied' = <<>>
    /\ mapped' = FALSE
    /\ outcome' = NoOutcome
    /\ returns' = 0
    /\ frameAlive' = FALSE
    /\ readyRecorded' = FALSE
    /\ failedRecorded' = FALSE
    /\ UNCHANGED <<callVars, panic, txVars, conn, qVars, convVars, guiVars, sysVars>>

\* platform.outputs() between two calls of capture_frame
CallOutputs ==
    /\ pc = "done"
    /\ ~outputs_ret.called
    /\ outputs_ret' = [called |-> TRUE, value |-> PlatformOutputs(outputs)]
    /\ UNCHANGED <<callVars, pc, panic, txVars, frame_format, requests, compVars,
                   memVars, retVars, ghostVars, qVars, convVars, calls, prev, guiVars,
                   sysVars>>

NextSession ==
    \/ CaptureRequest
    \/ DispatchCollect
    \/ DispatchCollectError
    \/ SetupNoFormat
    \/ SetupOverflowPanic
    \/ SetupShmFdFails
    \/ SetupSetLenFails
    \/ SetupNoShmGlobal
    \/ SetupCopy
    \/ ReadFrame
    \/ ReadFrameError
    \/ DropFrame
    \/ CompBufferSession
    \/ CompInfo
    \/ CompBufferDone
    \/ CompFailed
    \/ CompReady
    \/ CompRejectBuffer
    \/ ConnLost
    \/ CallAgain
    \/ CallOutputs

SpecSession == InitSession /\ [][NextSession]_vars

(***************************************************************************)
(* The resolution helpers applied to drawn inputs.                         *)
(***************************************************************************)
\* outputs a discovery may have found; two of them share a name
OutputSet ==
    {MkOutput("DP-1", 0, 0, 1920, 1080), MkOutput("eDP-1", 1920, 0, 1280, 720),
     MkOutput("DP-1", 1920, 0, 1920, 1080)}

OutputLists == UNION {[1..n -> OutputSet] : n \in 0..MaxOutputs}

NameSet == {NoName, SomeName("DP-1"), SomeName("eDP-1"), SomeName("HDMI-1")}

BoundsSet == {RegionNew(0, 0, 1920, 1080), RegionNew(1920, 0, 1280, 720)}

RegionSet ==
    {RegionNew(0, 0, 1920, 1080), RegionNew(1900, 1060, 50, 50),
     RegionNew(-1, 0, 10, 10), RegionNew(100, 100, 200, 200),
     RegionNew(1920, 0, 1280, 720), RegionNew(1919, 1079, 1, 1),
     RegionNew(1919, 1079, 2, 1), RegionNew(1900, 0, 40, 40)}

InitResolve ==
    /\ outputs \in OutputLists
    /\ arg_output = MkOutput("DP-1", 0, 0, 1920, 1080)
    /\ arg_overlay_cursor = FALSE
    /\ arg_region = NoRegion
    /\ TxIdle("idle")
    /\ q_name \in NameSet
    /\ q_bounds \in BoundsSet
    /\ q_region \in RegionSet
    /\ q_result = NoResult
    /\ ConvIdle
    /\ SessIdle
    /\ GuiIdle
    /\ ShmIdle
    /\ DiscIdle
    /\ EncIdle

\* get_output(output_name, &outputs)
CallGetOutput ==
    /\ pc = "idle"
    /\ q_result' = [op |-> "get_output"] @@ get_output(q_name, outputs)
    /\ UNCHANGED <<callVars, pc, panic, txVars, frame_format, requests, compVars,
                   memVars, retVars, ghostVars, q_name, q_bounds, q_region,
                   convVars, sessVars, guiVars, sysVars>>

\* q_bounds.contains(q_region)
CallContains ==
    /\ pc = "idle"
    /\ q_result' = [op |-> "contains", ok |-> Contains(q_bounds, q_region),
                    idx |-> 0, err |-> ""]
    /\ UNCHANGED <<callVars, pc, panic, txVars, frame_format, requests, compVars,
                   memVars, retVars, ghostVars, q_name, q_bounds, q_region,
                   convVars, sessVars, guiVars, sysVars>>

\* find_output_from_region(q_region, &outputs)
CallFindOutputFromRegion ==
    /\ pc = "idle"
    /\ q_result' = [op |-> "find_output_from_region"]
                       @@ find_output_from_region(q_region, outputs)
    /\ UNCHANGED <<callVars, pc, panic, txVars, frame_format, requests, compVars,
                   memVars, retVars, ghostVars, q_name, q_bounds, q_region,
                   convVars, sessVars, guiVars, sysVars>>

NextResolve ==
    \/ CallGetOutput
    \/ CallContains
    \/ CallFindOutputFromRegion

SpecResolve == InitResolve /\ [][NextResolve]_vars

(***************************************************************************)
(* The converters applied to drawn buffers.                                *)
(***************************************************************************)
\* pixels as they lie in the buffer, least significant byte first: plain
\* values, all bits set, the 10-bit channel at bit 20 full and at 1, the
\* channel at bit 0 below and at the truncation step, the two top bits alone
ChunkSet ==
    {<<16, 32, 48, 64>>, <<255, 255, 255, 255>>, <<0, 0, 240, 63>>, <<0, 0, 16, 0>>,
     <<3, 0, 0, 0>>, <<4, 252, 15, 0>>, <<0, 0, 0, 192>>, <<1, 2, 3, 4>>}

\* bytes after the last full pixel
TailSet == {<<>>, <<7>>, <<7, 8>>, <<7, 8, 9>>}

\* the bytes of a sequence of pixels
Flatten(chunks) ==
    [i \in 1..(4 * Len(chunks)) |-> chunks[((i - 1) \div 4) + 1][((i - 1) % 4) + 1]]

\* the buffers: up to MaxPixels pixels and a remainder of up to three bytes
BufferSet ==
    {Flatten(chunks) \o t :
        chunks \in UNION {[1..n -> ChunkSet] : n \in 0..MaxPixels}, t \in TailSet}

InitConvert ==
    /\ outputs = SessionOutputs
    /\ arg_output = SessionOutputs[1]
    /\ arg_overlay_cursor = FALSE
    /\ arg_region = NoRegion
    /\ TxIdle("idle")
    /\ ResolveIdle
    /\ SessIdle
    /\ GuiIdle
    /\ ShmIdle
    /\ DiscIdle
    /\ EncIdle
    /\ c_format \in FrameFormats
    /\ c_data \in BufferSet
    /\ c_out = NoConv

\* create_converter(c_format).convert_inplace(&mut c_data); c_data keeps the
\* bytes before the call, c_out.data the bytes after it
CallConvert ==
    /\ pc = "idle"
    /\ ~c_out.done
    /\ LET converter == create_converter(c_format)
       IN  c_out' = [done |-> TRUE, color |-> ColorTypeOf(converter),
                     data |-> convert_inplace(converter, c_data)]
    /\ UNCHANGED <<callVars, pc, panic, txVars, frame_format, requests, compVars,
                   memVars, retVars, ghostVars, qVars, c_format, c_data, sessVars,
                   guiVars, sysVars>>

NextConvert == CallConvert

SpecConvert == InitConvert /\ [][NextConvert]_vars

(***************************************************************************)
(* The interactive front-end (src/gui.rs) and its backend worker thread    *)
(* (src/gui_backend.rs), joined by the command and the result channel.     *)
(* capture_frame is the transaction modelled above; here it stands for     *)
(* its result only.                                                        *)
(***************************************************************************)
\* enum Command
MkCmd(type, name) == [type |-> type, name |-> name]

\* the commands a holder of cmd_tx sends
CmdSet ==
    {MkCmd("ListOutputs", ""), MkCmd("CaptureScreen", "eDP-1"), MkCmd("CaptureWindow", ""),
     MkCmd("SaveToDisk", ""), MkCmd("Quit", "")}

\* enum CommandResult, with the position of the command it answers and,
\* for a frame, the name of the output it was captured on
MkResult(type, names, output, for) ==
    [type |-> type, names |-> names, output |-> output, for |-> for]

\* what capture_frame returns to its caller
CaptureResults == {"Frame", "Err"}

\* what focused_window_area returns: no focused window, a window inside the
\* first output, a window across the border of two outputs
WindowAreas ==
    {[ok |-> FALSE, region |-> RegionNew(0, 0, 0, 0)],
     [ok |-> TRUE, region |-> RegionNew(100, 100, 200, 200)],
     [ok |-> TRUE, region |-> RegionNew(1900, 0, 40, 40)]}

\* the names of the outputs, as ListOutputs collects them
NamesOf(outs) == [i \in 1..Len(outs) |-> outs[i].name]

\* the process runs: a panic of the UI thread ends it
ProcessAlive == ui \in {"Loading", "Ready", "ScreenshotTaken"}

\* State, which owns cmd_tx and cmd_res_rx, exists: it is dropped when the
\* front-end leaves Ready
StateAlive == ui \in {"Loading", "Ready"}

\* the worker still owns cmd_rx and res_tx
WorkerAlive == worker \in {"spawned", "recv", "handling"}

\* mpsc's recv taking the newest message instead of the oldest
RecvNewest(chan) == [msg |-> chan[Len(chan)], rest |-> SubSeq(chan, 1, Len(chan) - 1)]

\* cmd_rx.recv(): the oldest message leaves the channel
RecvNext(chan) == [msg |-> Head(chan), rest |-> Tail(chan)]

InitGui ==
    /\ outputs \in {<<>>, SessionOutputs}
    /\ arg_output = SessionOutputs[1]
    /\ arg_overlay_cursor = FALSE
    /\ arg_region = NoRegion
    /\ TxIdle("idle")
    /\ ResolveIdle
    /\ ConvIdle
    /\ SessIdle
    /\ ShmIdle
    /\ DiscIdle
    /\ EncIdle
    /\ cmd_chan = <<>>
    /\ res_chan = <<>>
    /\ worker = "spawned"
    /\ cur_cmd = NoCmd
    /\ ui = "Loading"
    /\ ui_pc = "idle"
    /\ ui_mode = "Screen"
    /\ sentCmds = <<>>
    /\ recvCmds = <<>>
    /\ doneCmds = 0
    /\ failedCmds = 0

\* what no action of the front-end or the worker touches
guiFrame == <<callVars, pc, panic, txVars, frame_format, requests, compVars, memVars,
              retVars, ghostVars, qVars, convVars, sessVars, sysVars>>

(***************************************************************************)
(* The worker thread: run_backend's closure.                               *)
(***************************************************************************)
\* line 29: create_platform().expect(..)
WorkerCreatePlatform ==
    /\ ProcessAlive
    /\ worker = "spawned"
    /\ \E ok \in BOOLEAN : worker' = IF ok THEN "recv" ELSE "panicked"
    /\ UNCHANGED <<guiFrame, cmd_chan, res_chan, cur_cmd, ui, ui_pc, ui_mode, sentCmds,
                   recvCmds, doneCmds, failedCmds>>

\* line 32: cmd_rx.recv().unwrap() with a command waiting
WorkerRecv ==
    /\ ProcessAlive
    /\ worker = "recv"
    /\ cmd_chan # <<>>
    /\ cur_cmd' = RecvNext(cmd_chan).msg
    /\ cmd_chan' = RecvNext(cmd_chan).rest
    /\ recvCmds' = Append(recvCmds, cur_cmd')
    /\ worker' = "handling"
    /\ UNCHANGED <<guiFrame, res_chan, ui, ui_pc, ui_mode, sentCmds, doneCmds, failedCmds>>

\* line 32: recv() fails once the channel is empty and every sender is
\* dropped; unwrap panics
WorkerRecvDisconnected ==
    /\ ProcessAlive
    /\ worker = "recv"
    /\ cmd_chan = <<>>
    /\ ~StateAlive
    /\ worker' = "panicked"
    /\ UNCHANGED <<guiFrame, cmd_chan, res_chan, cur_cmd, ui, ui_pc, ui_mode, sentCmds,
                   recvCmds, doneCmds, failedCmds>>

\* the end of a match arm: with ok the arm ran through and sent the results
\* given, otherwise an expect or unwrap in it panicked
WorkerArmEnds(ok, results, failed) ==
    /\ worker' = IF ok THEN "recv" ELSE "panicked"
    /\ res_chan' = IF ok THEN res_chan \o results ELSE res_chan
    /\ doneCmds' = IF ok THEN doneCmds + 1 ELSE doneCmds
    /\ failedCmds' = IF failed THEN failedCmds + 1 ELSE failedCmds
    /\ cur_cmd' = IF ok THEN NoCmd ELSE cur_cmd
    /\ UNCHANGED <<guiFrame, cmd_chan, ui, ui_pc, ui_mode, sentCmds, recvCmds>>

\* lines 34-42: Command::ListOutputs
WorkerListOutputs ==
    /\ ProcessAlive
    /\ worker = "handling"
    /\ cur_cmd.type = "ListOutputs"
    /\ WorkerArmEnds(StateAlive,
                     <<MkResult("Outputs", NamesOf(PlatformOutputs(outputs)), "",
                                Len(recvCmds))>>,
                     FALSE)

\* lines 43-52: Command::CaptureScreen(output_name)
WorkerCaptureScreen ==
    /\ ProcessAlive
    /\ worker = "handling"
    /\ cur_cmd.type = "CaptureScreen"
    /\ LET outs == PlatformOutputs(outputs)
           output == get_output(NoName, outs)
       IN  \E r \in CaptureResults :
             IF output.ok /\ r = "Frame"
             THEN WorkerArmEnds(StateAlive,
                                <<MkResult("FrameCaptured", <<>>, outs[output.idx].name,
                                           Len(recvCmds))>>,
                                FALSE)
             ELSE WorkerArmEnds(FALSE, <<>>, TRUE)

\* lines 53-71: Command::CaptureWindow
WorkerCaptureWindow ==
    /\ ProcessAlive
    /\ worker = "handling"
    /\ cur_cmd.type = "CaptureWindow"
    /\ \E area \in WindowAreas, r \in CaptureResults :
         LET outs == PlatformOutputs(outputs)
             output == find_output_from_region(area.region, outs)
         IN  IF area.ok /\ output.ok /\ r = "Frame"
             THEN WorkerArmEnds(StateAlive,
                                <<MkResult("FrameCaptured", <<>>, outs[output.idx].name,
                                           Len(recvCmds))>>,
                                FALSE)
             ELSE WorkerArmEnds(FALSE, <<>>, TRUE)

\* lines 72-106: Command::SaveToDisk(filename, frame); no result is sent
WorkerSaveToDisk ==
    /\ ProcessAlive
    /\ worker = "handling"
    /\ cur_cmd.type = "SaveToDisk"
    /\ \E written \in BOOLEAN : WorkerArmEnds(written, <<>>, FALSE)

\* lines 107-110: Command::Quit leaves the loop and the thread ends
WorkerQuit ==
    /\ ProcessAlive
    /\ worker = "handling"
    /\ cur_cmd.type = "Quit"
    /\ worker' = "finished"
    /\ doneCmds' = doneCmds + 1
    /\ cur_cmd' = NoCmd
    /\ UNCHANGED <<guiFrame, cmd_chan, res_chan, ui, ui_pc, ui_mode, sentCmds, recvCmds,
                   failedCmds>>

(***************************************************************************)
(* The UI thread: Scrcap::update, called by the event loop for one message *)
(* at a time.  A handler that waits inside a call is left and re-entered   *)
(* at the wait.                                                            *)
(***************************************************************************)
\* lines 64-68, Loading on Message::Loaded(Ok(state)): send ListOutputs;
\* unwrap panics when the worker has dropped cmd_rx
UiLoadedSend ==
    /\ ui = "Loading"
    /\ ui_pc = "idle"
    /\ IF WorkerAlive
       THEN /\ cmd_chan' = Append(cmd_chan, MkCmd("ListOutputs", ""))
            /\ sentCmds' = Append(sentCmds, MkCmd("ListOutputs", ""))
            /\ ui_pc' = "recv_result"
            /\ UNCHANGED ui
       ELSE /\ ui' = "panicked"
            /\ UNCHANGED <<cmd_chan, sentCmds, ui_pc>>
    /\ UNCHANGED <<guiFrame, res_chan, worker, cur_cmd, ui_mode, recvCmds, doneCmds,
                   failedCmds>>

\* lines 69-76: state.cmd_res_rx.lock().unwrap().recv().unwrap() returns
\* with a result, of whatever kind, and the front-end becomes Ready
UiLoadedRecv ==
    /\ ui = "Loading"
    /\ ui_pc = "recv_result"
    /\ res_chan # <<>>
    /\ res_chan' = RecvNext(res_chan).rest
    /\ ui' = "Ready"
    /\ ui_pc' = "idle"
    /\ UNCHANGED <<guiFrame, cmd_chan, worker, cur_cmd, ui_mode, sentCmds, recvCmds,
                   doneCmds, failedCmds>>

\* line 69: recv() fails once the worker has dropped res_tx; unwrap panics
UiLoadedRecvDisconnected ==
    /\ ui = "Loading"
    /\ ui_pc = "recv_result"
    /\ res_chan = <<>>
    /\ ~WorkerAlive
    /\ ui' = "panicked"
    /\ ui_pc' = "idle"
    /\ UNCHANGED <<guiFrame, cmd_chan, res_chan, worker, cur_cmd, ui_mode, sentCmds,
                   recvCmds, doneCmds, failedCmds>>

\* lines 84-86, Ready on Message::ScreenshotModeChanged(mode).  The other
\* settings messages (lines 87-97) change fields no capture reads.
UiModeChanged ==
    /\ ui = "Ready"
    /\ ui_pc = "idle"
    /\ \E mode \in {"Screen", "Window"} :
         /\ mode # ui_mode
         /\ ui_mode' = mode
    /\ UNCHANGED <<guiFrame, cmd_chan, res_chan, worker, cur_cmd, ui, ui_pc, sentCmds,
                   recvCmds, doneCmds, failedCmds>>

\* lines 98-103, Ready on Message::TakeScreenshot: update itself connects
\* to the compositor and runs the capture
UiTakeScreenshotBegin ==
    /\ ui = "Ready"
    /\ ui_pc = "idle"
    /\ ui_pc' = "capturing"
    /\ UNCHANGED <<guiFrame, cmd_chan, res_chan, worker, cur_cmd, ui, ui_mode, sentCmds,
                   recvCmds, doneCmds, failedCmds>>

\* lines 103-163: every step is followed by expect; when all succeed the
\* front-end becomes ScreenshotTaken, which drops State
UiTakeScreenshotEnd ==
    /\ ui = "Ready"
    /\ ui_pc = "capturing"
    /\ \E platformOk \in BOOLEAN, area \in WindowAreas, r \in CaptureResults,
          written \in BOOLEAN :
         LET outs == PlatformOutputs(outputs)
             first == get_output(NoName, outs)
             output == IF ui_mode = "Window"
                       THEN find_output_from_region(area.region, outs)
                       ELSE first
             ok == /\ platformOk
                   /\ first.ok
                   /\ (ui_mode = "Window") => area.ok
                   /\ output.ok
                   /\ r = "Frame"
                   /\ written
         IN  ui' = IF ok THEN "ScreenshotTaken" ELSE "panicked"
    /\ ui_pc' = "idle"
    /\ UNCHANGED <<guiFrame, cmd_chan, res_chan, worker, cur_cmd, ui_mode, sentCmds,
                   recvCmds, doneCmds, failedCmds>>

\* a holder of State.cmd_tx sends a command (enum Command, lines 12-18 of
\* src/gui_backend.rs); send queues it while the worker owns cmd_rx
FrontEndSend ==
    /\ ui = "Ready"
    /\ ui_pc = "idle"
    /\ WorkerAlive
    /\ Len(sentCmds) < MaxCommands
    /\ \E c \in CmdSet :
         /\ cmd_chan' = Append(cmd_chan, c)
         /\ sentCmds' = Append(sentCmds, c)
    /\ UNCHANGED <<guiFrame, res_chan, worker, cur_cmd, ui, ui_pc, ui_mode, recvCmds,
                   doneCmds, failedCmds>>

NextGui ==
    \/ WorkerCreatePlatform
    \/ WorkerRecv
    \/ WorkerRecvDisconnected
    \/ WorkerListOutputs
    \/ WorkerCaptureScreen
    \/ WorkerCaptureWindow
    \/ WorkerSaveToDisk
    \/ WorkerQuit
    \/ UiLoadedSend
    \/ UiLoadedRecv
    \/ UiLoadedRecvDisconnected
    \/ UiModeChanged
    \/ UiTakeScreenshotBegin
    \/ UiTakeScreenshotEnd
    \/ FrontEndSend

SpecGui == InitGui /\ [][NextGui]_vars

(***************************************************************************)
(* create_shm_fd (src/platform/sway.rs, the same code in                   *)
(* src/screenshot/wayland.rs): the memfd_create loop and the shm_open      *)
(* fallback.  Each turn of a loop is one action; the kernel chooses what   *)
(* each system call returns.                                               *)
(***************************************************************************)
\* what memfd_create returns
MemfdResults == {"Ok", "EINTR", "ENOSYS", "EMFILE"}

\* what fcntl(fd, F_ADD_SEALS(..)) returns
SealResults == {"Ok", "EINVAL"}

\* what shm_open(name, O_CREAT | O_EXCL | ..) returns: EEXIST while the name
\* exists, and no descriptor for an existing name
ShmOpenResults(name, names) ==
    IF name \in names THEN {"EEXIST", "EINTR", "EMFILE"} ELSE {"Ok", "EINTR", "EMFILE"}

\* what shm_unlink returns
UnlinkResults == {"Ok", "EACCES"}

\* what close returns; the descriptor is released in either case
CloseResults == {"Ok", "EIO"}

\* the values subsec_nanos() of SystemTime::now() takes
NanoSet == {1, 2}

\* the descriptor the kernel hands out
NewFd == "mem_fd"

\* format!("/wayshot-{}", sys_time.duration_since(UNIX_EPOCH).unwrap().subsec_nanos())
HandleOf(time) == <<"/wayshot-", time>>

\* the EINTR arm of the first match returning the error
MemfdArmNoRetry(res) ==
    CASE res = "Ok" -> "return_fd"
      [] res = "ENOSYS" -> "break"
      [] OTHER -> "return_err"

\* lines 458-480: the arms of the match on memfd_create's result
MemfdArm(res) ==
    CASE res = "Ok" -> "return_fd"
      [] res = "EINTR" -> "continue"
      [] res = "ENOSYS" -> "break"
      [] OTHER -> "return_err"

\* lines 489-521: the arms of the match on shm_open's result
ShmOpenArm(res) ==
    CASE res = "Ok" -> "unlink"
      [] res = "EEXIST" -> "rename"
      [] res = "EINTR" -> "continue"
      [] OTHER -> "return_err"

\* the failure arm of shm_unlink returning without close
UnlinkArmNoClose(unlinked, closed) ==
    IF unlinked = "Ok"
    THEN [ok |-> TRUE, close |-> FALSE, err |-> ""]
    ELSE [ok |-> FALSE, close |-> FALSE, err |-> unlinked]

\* lines 502-508: the arms of the matches on shm_unlink's and close's results
UnlinkArm(unlinked, closed) ==
    IF unlinked = "Ok"
    THEN [ok |-> TRUE, close |-> FALSE, err |-> ""]
    ELSE [ok |-> FALSE, close |-> TRUE, err |-> IF closed = "Ok" THEN unlinked ELSE closed]

InitShm ==
    /\ outputs = SessionOutputs
    /\ arg_output = SessionOutputs[1]
    /\ arg_overlay_cursor = FALSE
    /\ arg_region = NoRegion
    /\ TxIdle("idle")
    /\ ResolveIdle
    /\ ConvIdle
    /\ SessIdle
    /\ GuiIdle
    /\ DiscIdle
    /\ EncIdle
    /\ shm_pc = "memfd"
    /\ sys_time = 0
    /\ mem_file_handle = <<>>
    /\ shm_errno = ""
    /\ shm_sealed = ""
    /\ shm_ret = NoShmRet
    /\ shm_names \in SUBSET {HandleOf(t) : t \in NanoSet}
    /\ shm_created = {}
    /\ shm_fds = {}
    /\ shm_turns = 0

\* what no step of create_shm_fd touches
shmFrame == <<callVars, pc, panic, txVars, frame_format, requests, compVars, memVars,
              retVars, ghostVars, qVars, convVars, sessVars, guiVars, discVars, encVars>>

\* lines 457-481: one turn of the memfd_create loop; on break lines 484-488
\* take the time and format the first name
ShmMemfd ==
    /\ shm_pc = "memfd"
    /\ shm_turns < MaxTurns
    /\ \E res \in MemfdResults, seal \in SealResults, time \in NanoSet :
         LET arm == MemfdArm(res)
         IN  /\ shm_errno' = res
             /\ shm_turns' = shm_turns + 1
             /\ shm_pc' = CASE arm = "continue" -> "memfd"
                            [] arm = "break" -> "shm_open"
                            [] OTHER -> "returned"
             /\ shm_fds' = IF res = "Ok" THEN {NewFd} ELSE {}
             /\ shm_sealed' = IF res = "Ok" THEN seal ELSE ""
             /\ shm_ret' = CASE arm = "return_fd" -> [ok |-> TRUE, fd |-> NewFd, err |-> ""]
                             [] arm = "return_err" -> [ok |-> FALSE, fd |-> "", err |-> res]
                             [] OTHER -> NoShmRet
             /\ sys_time' = IF arm = "break" THEN time ELSE 0
             /\ mem_file_handle' = IF arm = "break" THEN HandleOf(time) ELSE <<>>
    /\ UNCHANGED <<shmFrame, shm_names, shm_created>>

\* lines 489-522: one turn of the shm_open loop
ShmOpen ==
    /\ shm_pc = "shm_open"
    /\ shm_turns < MaxTurns
    /\ \E res \in ShmOpenResults(mem_file_handle, shm_names), unlinked \in UnlinkResults,
          closed \in CloseResults :
         LET arm == ShmOpenArm(res)
             un == UnlinkArm(unlinked, closed)
         IN  /\ shm_turns' = shm_turns + 1
             /\ shm_created' = IF res = "Ok" THEN {mem_file_handle} ELSE shm_created
             /\ shm_names' = IF res = "Ok" /\ unlinked # "Ok"
                             THEN shm_names \cup {mem_file_handle}
                             ELSE shm_names
             /\ shm_errno' = CASE res # "Ok" -> res
                               [] un.close -> closed
                               [] OTHER -> unlinked
             /\ shm_fds' = IF res = "Ok" /\ ~un.close THEN {NewFd} ELSE {}
             /\ shm_pc' = IF arm \in {"rename", "continue"} THEN "shm_open" ELSE "returned"
             /\ shm_ret' = CASE arm = "unlink" /\ un.ok -> [ok |-> TRUE, fd |-> NewFd, err |-> ""]
                             [] arm = "unlink" /\ ~un.ok -> [ok |-> FALSE, fd |-> "", err |-> un.err]
                             [] arm = "return_err" -> [ok |-> FALSE, fd |-> "", err |-> res]
                             [] OTHER -> NoShmRet
             /\ mem_file_handle' = IF arm = "rename" THEN HandleOf(sys_time)
                                   ELSE mem_file_handle
    /\ UNCHANGED <<shmFrame, sys_time, shm_sealed>>

\* another process unlinks a name of the shared-memory filesystem while
\* create_shm_fd runs
ShmOtherUnlinks ==
    /\ shm_pc = "shm_open"
    /\ \E name \in shm_names \ shm_created : shm_names' = shm_names \ {name}
    /\ UNCHANGED <<shmFrame, shm_pc, sys_time, mem_file_handle, shm_errno, shm_sealed,
                   shm_ret, shm_created, shm_fds, shm_turns>>

NextShm ==
    \/ ShmMemfd
    \/ ShmOpen
    \/ ShmOtherUnlinks

SpecShm == InitShm /\ [][NextShm]_vars

(***************************************************************************)
(* Discovery: PlatformWayland::new (src/platform/sway.rs).  A display      *)
(* object is known by its position in the compositor's advertisement       *)
(* order; that position stands for the raw wl_output handle.               *)
(***************************************************************************)
\* what the compositor holds for a display object: the name and logical
\* rectangle its xdg_output reports, the factor of its scale event, and the
\* number of geometry events it sends during discovery
MkDisplay(name, position, scale, geometries) ==
    [name |-> name, x |-> 1920 * (position - 1), y |-> 0, width |-> 1920 \div scale,
     height |-> 1080 \div scale, scale |-> scale, geometries |-> geometries]

\* the lists of display objects a compositor advertises
DisplayLists ==
    UNION {{[i \in 1..n |-> MkDisplay(names[i], i, scales[i], geoms[i])] :
               names \in [1..n -> {"DP-1", "eDP-1"}], scales \in [1..n -> {1, 2}],
               geoms \in [1..n -> 0..MaxGeometries]} : n \in 0..MaxOutputs}

\* an event of wl_output or of zxdg_output_v1
MkEvent(type, a, b, name) == [type |-> type, a |-> a, b |-> b, name |-> name]

\* the events a compositor sends for a bound wl_output
OutputEventsOf(d) ==
    [i \in 1..d.geometries |-> MkEvent("Geometry", 0, 0, "")]
        \o <<MkEvent("Mode", 1920, 1080, ""), MkEvent("Scale", d.scale, 0, ""),
             MkEvent("Done", 0, 0, "")>>

\* the events a compositor sends for the xdg_output of a display object
XdgEventsOf(d) ==
    <<MkEvent("LogicalPosition", d.x, d.y, ""), MkEvent("LogicalSize", d.width, d.height, ""),
      MkEvent("Name", 0, 0, d.name), MkEvent("Done", 0, 0, "")>>

\* struct WaylandOutput
MkWaylandOutput(raw, output) == [raw |-> raw, output |-> output]

\* Output::default()
OutputDefault == MkOutput("<unknown>", 0, 0, 0, 0)

\* lines 55-77: the handler assigned to a wl_output
HandleOutputEvent(outs, raw, ev) ==
    IF ev.type = "Geometry" THEN Append(outs, MkWaylandOutput(raw, OutputDefault)) ELSE outs

\* the handler applied to the events of one display object, in order
RECURSIVE HandleOutputEvents(_, _, _)
HandleOutputEvents(outs, raw, evs) ==
    IF evs = <<>> THEN outs
    ELSE HandleOutputEvents(HandleOutputEvent(outs, raw, Head(evs)), raw, Tail(evs))

\* line 88: the second roundtrip dispatches the events of the display
\* objects from raw on
RECURSIVE InitOutputs(_, _, _)
InitOutputs(outs, ds, raw) ==
    IF raw > Len(ds) THEN outs
    ELSE InitOutputs(HandleOutputEvents(outs, raw, OutputEventsOf(ds[raw])), ds, raw + 1)

\* lines 96-100: the cells the xdg_output handler writes
NoCells == [name |-> "", x |-> 0, y |-> 0, width |-> 0, height |-> 0]

\* lines 109-130: the handler assigned to an xdg_output
HandleXdgEvent(cells, ev) ==
    CASE ev.type = "LogicalPosition" -> [cells EXCEPT !.x = ev.a, !.y = ev.b]
      [] ev.type = "LogicalSize" -> [cells EXCEPT !.width = ev.a, !.height = ev.b]
      [] ev.type = "Name" -> [cells EXCEPT !.name = ev.name]
      [] OTHER -> cells

RECURSIVE HandleXdgEvents(_, _)
HandleXdgEvents(cells, evs) ==
    IF evs = <<>> THEN cells
    ELSE HandleXdgEvents(HandleXdgEvent(cells, Head(evs)), Tail(evs))

\* lines 137-147: the WaylandOutput pushed to final_wayland_outputs
FinalOutput(wayland_output, cells) ==
    MkWaylandOutput(wayland_output.raw,
                    [MkOutput(cells.name, cells.x, cells.y, cells.width, cells.height)
                        EXCEPT !.scale = wayland_output.output.scale])

\* the Output records of a list of WaylandOutput
OutputsOf(wos) == [i \in 1..Len(wos) |-> wos[i].output]

InitDiscover ==
    /\ outputs = SessionOutputs
    /\ arg_output = SessionOutputs[1]
    /\ arg_overlay_cursor = FALSE
    /\ arg_region = NoRegion
    /\ TxIdle("idle")
    /\ ResolveIdle
    /\ ConvIdle
    /\ SessIdle
    /\ GuiIdle
    /\ ShmIdle
    /\ EncIdle
    /\ displays \in DisplayLists
    /\ disc_pc = "globals"
    /\ wayland_outputs = <<>>
    /\ final_outputs = <<>>
    /\ cap_req = NoCapReq

\* what no step of discovery touches
discFrame == <<callVars, pc, panic, txVars, frame_format, requests, compVars, memVars,
               retVars, ghostVars, qVars, convVars, sessVars, guiVars, shmVars, encVars>>

\* line 85: the first roundtrip brings the globals; every wl_output is
\* bound and given its handler
DiscGlobals ==
    /\ disc_pc = "globals"
    /\ \E ok \in BOOLEAN : disc_pc' = IF ok THEN "init_outputs" ELSE "failed"
    /\ UNCHANGED <<discFrame, displays, wayland_outputs, final_outputs, cap_req>>

\* line 88: the second roundtrip dispatches the events of the bound wl_outputs
DiscInitOutputs ==
    /\ disc_pc = "init_outputs"
    /\ \E ok \in BOOLEAN :
         /\ disc_pc' = IF ok THEN "xdg_manager" ELSE "failed"
         /\ wayland_outputs' = IF ok THEN InitOutputs(<<>>, displays, 1) ELSE wayland_outputs
    /\ UNCHANGED <<discFrame, displays, final_outputs, cap_req>>

\* line 92: instantiate_exact::<ZxdgOutputManagerV1>(3)
DiscXdgManager ==
    /\ disc_pc = "xdg_manager"
    /\ \E ok \in BOOLEAN : disc_pc' = IF ok THEN "xdg_outputs" ELSE "failed"
    /\ UNCHANGED <<discFrame, displays, wayland_outputs, final_outputs, cap_req>>

\* lines 93-151: one turn of the loop over wayland_outputs; the roundtrip's
\* unwrap panics when the connection fails
DiscXdgOutput ==
    /\ disc_pc = "xdg_outputs"
    /\ Len(final_outputs) < Len(wayland_outputs)
    /\ LET wayland_output == wayland_outputs[Len(final_outputs) + 1]
           cells == HandleXdgEvents(NoCells, XdgEventsOf(displays[wayland_output.raw]))
       IN  \E ok \in BOOLEAN :
             /\ disc_pc' = IF ok THEN "xdg_outputs" ELSE "panicked"
             /\ final_outputs' = IF ok
                                 THEN Append(final_outputs, FinalOutput(wayland_output, cells))
                                 ELSE final_outputs
    /\ UNCHANGED <<discFrame, displays, wayland_outputs, cap_req>>

\* lines 154-165: instantiate_exact::<ZwlrScreencopyManagerV1>(3), then
\* Ok(PlatformWayland { outputs: final_wayland_outputs, .. })
DiscScreencopyManager ==
    /\ disc_pc = "xdg_outputs"
    /\ Len(final_outputs) = Len(wayland_outputs)
    /\ \E ok \in BOOLEAN : disc_pc' = IF ok THEN "ready" ELSE "failed"
    /\ UNCHANGED <<discFrame, displays, wayland_outputs, final_outputs, cap_req>>

\* an Output no display object of the session has
UnknownOutput == MkOutput("HDMI-1", 0, 0, 800, 600)

\* lines 186-209: capture_frame is given the given-th Output of outputs(),
\* or UnknownOutput for 0; it sends its capture request to the handle
\* find_wl_output returns
DiscCapture ==
    /\ disc_pc = "ready"
    /\ ~cap_req.asked
    /\ \E given \in 0..Len(final_outputs) :
         LET snapshot == PlatformOutputs(OutputsOf(final_outputs))
             output == IF given = 0 THEN UnknownOutput ELSE snapshot[given]
             found == find_wl_output(OutputsOf(final_outputs), output)
         IN  cap_req' = [asked |-> TRUE,
                         given |-> IF given = 0 THEN 0 ELSE final_outputs[given].raw,
                         sent |-> IF found = 0 THEN 0 ELSE final_outputs[found].raw,
                         ok |-> found # 0]
    /\ UNCHANGED <<discFrame, displays, disc_pc, wayland_outputs, final_outputs>>

NextDiscover ==
    \/ DiscGlobals
    \/ DiscInitOutputs
    \/ DiscXdgManager
    \/ DiscXdgOutput
    \/ DiscScreencopyManager
    \/ DiscCapture

SpecDiscover == InitDiscover /\ [][NextDiscover]_vars

(***************************************************************************)
(* write_to_file (src/output.rs): the Ppm arm.                             *)
(***************************************************************************)
\* struct Frame
MkFrame(desc, color, data) ==
    [frame_format |-> desc, frame_color_type |-> color, frame_mmap |-> data]

\* descriptors of returned frames: rows without padding, and rows of one
\* pixel followed by four bytes of padding
EncodeDescs ==
    {MkDesc("Xbgr8888", 1, 1, 4), MkDesc("Xbgr8888", 2, 1, 8), MkDesc("Xrgb8888", 1, 2, 8)}

\* the frames capture_frame returns for these descriptors: Rgba8 and a
\* mapping of stride * height bytes (lines 300-306 of src/platform/sway.rs)
EncodeFrames ==
    UNION {{MkFrame(d, "Rgba8", Flatten(chunks)) :
               chunks \in [1..((d.stride * d.height) \div 4) -> ChunkSet]} : d \in EncodeDescs}

\* lines 78-88: for chunk in frame_mmap.chunks_exact(4) the first three
\* bytes of the chunk are appended
Rgb8Data(frame) ==
    [i \in 1..(3 * (Len(frame.frame_mmap) \div 4)) |->
        frame.frame_mmap[4 * ((i - 1) \div 3) + ((i - 1) % 3) + 1]]

InitEncode ==
    /\ outputs = SessionOutputs
    /\ arg_output = SessionOutputs[1]
    /\ arg_overlay_cursor = FALSE
    /\ arg_region = NoRegion
    /\ TxIdle("idle")
    /\ ResolveIdle
    /\ ConvIdle
    /\ SessIdle
    /\ GuiIdle
    /\ ShmIdle
    /\ DiscIdle
    /\ enc_frame \in EncodeFrames
    /\ enc_out = [done |-> FALSE, data |-> <<>>]

\* write_to_file(output_file, EncodingFormat::Ppm, enc_frame) up to the
\* call of the Pnm encoder: enc_out.data is rgb8_data
CallWriteToFile ==
    /\ ~enc_out.done
    /\ enc_frame.frame_color_type = "Rgba8"
    /\ enc_out' = [done |-> TRUE, data |-> Rgb8Data(enc_frame)]
    /\ UNCHANGED <<callVars, pc, panic, txVars, frame_format, requests, compVars, memVars,
                   retVars, ghostVars, qVars, convVars, sessVars, guiVars, shmVars,
                   discVars, enc_frame>>

NextEncode == CallWriteToFile

SpecEncode == InitEncode /\ [][NextEncode]_vars

(***************************************************************************)
(* Properties of the capture transaction.                                  *)
(***************************************************************************)
\* positions of the collected descriptors whose format passes the selection
QualifyingPositions ==
    {i \in 1..Len(frame_formats) : Qualifies(frame_formats[i].format)}

\* the selection of lines 275-298 has run
SelectionDone == frame_buffer_done /\ pc \in {"read", "done", "panicked"}

\* the types of the requests sent so far
RequestTypes == {requests[i].type : i \in 1..Len(requests)}

\* C1: a call of capture_frame returns at most once, and when it has
\* returned it has produced one Frame or one error; a Frame is returned only
\* after the Ready arm of the handler has run and never in a transaction
\* whose handler recorded Failed, whatever the batches dispatch delivered.
C1_OneTerminalOutcome ==
    /\ returns <= 1
    /\ (pc = "done") <=> (returns = 1)
    /\ (returns = 0) <=> (outcome = NoOutcome)
    /\ (returns = 1) => (outcome.kind \in {"Frame", "Err"})
    /\ (outcome.kind = "Frame") => (readyRecorded /\ ~failedRecorded)
    /\ (outcome.kind = "Err") => (~mapped /\ ~frameAlive /\ outcome.frame_mmap = <<>>)

\* a Frame was returned in a transaction with two advertisements
C1_Witness ==
    /\ pc = "done"
    /\ outcome.kind = "Frame"
    /\ readyRecorded
    /\ Len(frame_formats) = 2

\* errors that come from the local allocation steps, not from the compositor
LocalFaults == {"Alloc", "Truncate", "NoShm"}

\* dispatch has nothing to deliver and the compositor will send nothing more
Blocked ==
    /\ pc \in {"collect", "read"}
    /\ wire = <<>>
    /\ conn = "up"
    /\ comp \in {"dead", "finished"}

\* the call takes no further step
Settled == pc \in {"done", "panicked"} \/ Blocked

\* C2: once the compositor has answered with Failed (at any point, also
\* before BufferDone) and sent nothing further, the call ends with the
\* capture-failed error, without a Frame and with the memory file released.
\* Stated on the states in which the call takes no further step.
C2_FailedEndsInCaptureFailed ==
    (/\ failedRecorded
     /\ comp = "dead"
     /\ conn = "up"
     /\ Settled
     /\ outcome.err \notin LocalFaults)
        => (/\ pc = "done"
            /\ outcome = ErrOutcome("FrameCopy")
            /\ fdCloses = fdOpens
            /\ ~mapped)

\* C3: after create_shm_fd has succeeded, every return of capture_frame has
\* closed the descriptor exactly once; no mapping exists unless a Frame was
\* returned, and the Frame's mapping lasts exactly as long as the Frame.
C3_DescriptorClosedOnce ==
    /\ fdOpens <= 1
    /\ fdCloses <= fdOpens
    /\ (pc = "done") => (fdCloses = fdOpens)
    /\ (outcome.kind # "Frame") => ~mapped
    /\ (outcome.kind = "Frame") => (mapped <=> frameAlive)

\* a Frame was returned and later dropped, the descriptor closed once
C3_Witness ==
    /\ pc = "done"
    /\ outcome.kind = "Frame"
    /\ ~frameAlive
    /\ fdOpens = 1
    /\ fdCloses = 1

\* the least element of a nonempty set of positions
MinOf(S) == CHOOSE i \in S : \A j \in S : i <= j

\* C4: the selected descriptor is the earliest collected descriptor whose
\* format passes the selection, whatever width, height and stride the
\* descriptors carry.
C4_FirstMatchWins ==
    (SelectionDone /\ QualifyingPositions # {})
        => (/\ frame_format = frame_formats[MinOf(QualifyingPositions)]
            /\ outcome.kind = "Frame" => outcome.frame_format = frame_format)

\* two different qualifying descriptors were collected and the first was taken
C4_Witness ==
    /\ SelectionDone
    /\ Len(frame_formats) = 2
    /\ QualifyingPositions = {1, 2}
    /\ frame_formats[1] # frame_formats[2]
    /\ frame_formats[2].height > frame_formats[1].height
    /\ frame_format = frame_formats[1]

\* C5: when BufferDone has arrived and no collected descriptor qualifies
\* (also with no descriptor at all), capture_frame fails with the
\* unsupported-format error and has created no memory file, pool or buffer
\* and sent no copy request.
C5_NoQualifyingFormat ==
    (SelectionDone /\ QualifyingPositions = {})
        => (/\ pc = "done"
            /\ outcome = ErrOutcome("UnsupportedFormat")
            /\ frame_format = NoDesc
            /\ fdOpens = 0
            /\ RequestTypes \cap {"create_pool", "create_buffer", "copy"} = {})

\* BufferDone arrived with no advertisement at all
C5_Witness ==
    /\ SelectionDone
    /\ frame_formats = <<>>
    /\ outcome = ErrOutcome("UnsupportedFormat")

\* C6: an advertisement with a format outside the six FrameFormat values
\* never makes the handler panic.
C6_UnknownFormatNeverPanics ==
    (\E i \in 1..Len(advertised) : advertised[i].format \in OtherWlFormats)
        => panic # "format"

\* a region capture_frame must refuse: degenerate, or not inside the output
InvalidRegion(region, output) ==
    /\ region.some
    /\ \/ region.width <= 0
       \/ region.height <= 0
       \/ ~Contains(OutputRegion(output),
                    RegionNew(region.x, region.y, region.width, region.height))

\* C7: with a degenerate region, or one not contained in the output's
\* bounding rectangle, capture_frame fails with the invalid-region error and
\* sends no capture request.
C7_InvalidRegionRejected ==
    (pc # "start" /\ InvalidRegion(arg_region, arg_output))
        => (/\ outcome = ErrOutcome("InvalidRegion")
            /\ requests = <<>>)

\* what the converter of a format makes of byte i of a buffer, written from
\* the layout of the formats: the identity, the exchange of bytes 0 and 2 of
\* each pixel, or the top 8 bits of the three 10-bit channels with alpha 255
ExpectedByte(format, raw, i) ==
    LET full == (Len(raw) \div 4) * 4
        base == ((i - 1) \div 4) * 4
        k == i - base
        w == raw[base + 1] + 256 * raw[base + 2] + 65536 * raw[base + 3]
                 + 16777216 * (raw[base + 4] % 128)
    IN  IF i > full THEN raw[i]
        ELSE CASE format \in {"Xbgr8888", "Abgr8888"} -> raw[i]
               [] format \in {"Xrgb8888", "Argb8888"} ->
                     IF k = 1 THEN raw[base + 3]
                     ELSE IF k = 3 THEN raw[base + 1] ELSE raw[i]
               [] OTHER ->
                     IF k = 1 THEN (w \div 4) % 256
                     ELSE IF k = 2 THEN (w \div 4096) % 256
                     ELSE IF k = 3 THEN (w \div 4194304) % 256
                     ELSE 255

\* C8: a returned Frame carries the selected descriptor, the color tag
\* RGBA8 and stride x height bytes, which are the bytes the compositor
\* copied with the converter of the selected format applied once.
C8_FrameContents ==
    (outcome.kind = "Frame")
        => (/\ readyRecorded
            /\ outcome.frame_format = frame_format
            /\ outcome.frame_format = frame_formats[MinOf(QualifyingPositions)]
            /\ outcome.frame_color_type = "Rgba8"
            /\ Len(outcome.frame_mmap) = frame_format.stride * frame_format.height
            /\ Len(copied) = Len(outcome.frame_mmap)
            /\ \A i \in 1..Len(copied) :
                  outcome.frame_mmap[i] = ExpectedByte(frame_format.format, copied, i))

\* an Xrgb8888 frame of two padded rows was returned, its bytes converted
C8_Witness ==
    /\ outcome.kind = "Frame"
    /\ outcome.frame_format = MkDesc("Xrgb8888", 1, 2, 8)
    /\ Len(outcome.frame_mmap) = 16
    /\ outcome.frame_mmap # copied

\* bytes of one pixel in each of the six formats (the converters' chunk size)
BytesPerPixel == 4

\* C21: every Frame capture_frame returns has a stride of at least width x 4
\* bytes, whatever descriptor the compositor advertised.
C21_StrideCoversWidth ==
    (outcome.kind = "Frame")
        => (outcome.frame_format.stride >= outcome.frame_format.width * BytesPerPixel)

\* C22: a transaction whose only advertised descriptor has a format the
\* converters decode (Abgr8888 among them) selects that descriptor and does
\* not fail with the unsupported-format error.
C22_DecodableFormatQualifies ==
    (/\ SelectionDone
     /\ Len(frame_formats) = 1
     /\ frame_formats[1].format \in FrameFormats
     /\ create_converter(frame_formats[1].format) \in {"ConvertNone", "ConvertRGB8", "ConvertBGR10"})
        => (/\ frame_format = frame_formats[1]
            /\ outcome # ErrOutcome("UnsupportedFormat"))

\* the Ready and Failed notifications among events
Terminals(evs) == SelectSeq(evs, LAMBDA e : e.type \in {"Ready", "Failed"})

\* the terminal notification recorded once the pending events are
\* dispatched: the last one pending, else the one recorded before
TerminalFound ==
    LET t == Terminals(wire)
    IN  IF t # <<>> THEN t[Len(t)].type
        ELSE IF frame_state = "Finished" THEN "Ready"
        ELSE IF frame_state = "Failed" THEN "Failed"
        ELSE "None"

\* a turn of read_frame's loop whose dispatch succeeded ends the wait only
\* with a terminal notification recorded: Ready gives a Frame (or the error
\* of a mapping that failed), Failed gives the capture-failed error
WaitEndsOnTerminal ==
    (pc = "read" /\ pc' # "read" /\ outcome' # ErrOutcome("Dispatch"))
        => (/\ pc' = "done"
            /\ TerminalFound # "None"
            /\ (TerminalFound = "Ready")
                  => (outcome'.kind = "Frame" \/ outcome' = ErrOutcome("Map"))
            /\ (TerminalFound = "Failed") => (outcome' = ErrOutcome("FrameCopy")))

\* what a returned outcome says about the notifications handled
OutcomeHasTerminal ==
    /\ (outcome.kind = "Frame") => readyRecorded
    /\ (outcome = ErrOutcome("FrameCopy")) => failedRecorded
    /\ (pc = "read" /\ wire = <<>> /\ conn = "up")
          => (frame_state = "None" \/ failedRecorded)

\* C23: after the copy request the wait of read_frame ends only when a Ready
\* or Failed notification has been recorded; a successful dispatch that
\* delivers no event or only Flags and Damage leaves the call waiting; Ready
\* leads to a Frame and Failed to the capture-failed error.
C23_WaitEndsOnTerminal == []OutcomeHasTerminal /\ [][WaitEndsOnTerminal]_vars

\* a turn of read_frame's loop has dispatched a Damage notification alone
\* and the call is still waiting
C23_Witness ==
    /\ pc = "read"
    /\ wire = <<>>
    /\ comp = "copying"
    /\ frame_state = "None"
    /\ infoSent = <<"Damage">>

\* a BufferDone notification is among the pending events
BufferDonePending == \E i \in 1..Len(wire) : wire[i].type = "BufferDone"

\* the types of the requests in the order sent
TypesOf(reqs) == [i \in 1..Len(reqs) |-> reqs[i].type]

\* the request log is the capture request alone, or the capture request
\* followed by pool, buffer and copy; allocation and selection have
\* happened only with BufferDone received
RequestsOrdered ==
    /\ Len(requests) \in {0, 1, 4}
    /\ (requests # <<>>)
          => (requests[1].type \in {"capture_output", "capture_output_region"})
    /\ (Len(requests) = 4)
          => (SubSeq(TypesOf(requests), 2, 4) = <<"create_pool", "create_buffer", "copy">>)
    /\ (Len(requests) > 1 \/ fdOpens > 0 \/ frame_format # NoDesc) => frame_buffer_done
    /\ (pc \in {"setup", "read"}) => frame_buffer_done
    /\ (pc = "collect") => (~frame_buffer_done /\ Len(requests) = 1)

\* a turn of the collection loop goes on to the selection, or returns, only
\* with BufferDone delivered or with a dispatch that failed; without
\* BufferDone it sends and allocates nothing; the log only grows
CollectEndsOnBufferDone ==
    /\ (pc = "collect" /\ pc' \in {"setup", "done"})
          => (BufferDonePending \/ outcome' = ErrOutcome("Dispatch"))
    /\ (pc = "collect" /\ ~BufferDonePending)
          => (requests' = requests /\ fdOpens' = fdOpens /\ frame_format' = frame_format)
    /\ Len(requests') >= Len(requests)
    /\ SubSeq(requests', 1, Len(requests)) = requests

\* C24: within one transaction the capture request is sent first;
\* selection, allocation, buffer creation and copy happen only after
\* BufferDone has been received; copy is sent at most once and after the
\* buffer was created; a dispatch that delivers no BufferDone never ends the
\* collection wait.
C24_RequestOrder == []RequestsOrdered /\ [][CollectEndsOnBufferDone]_vars

\* a region capture returned a Frame after the four requests in order, the
\* advertisement and BufferDone having been dispatched
C24_Witness ==
    /\ pc = "done"
    /\ outcome.kind = "Frame"
    /\ frame_buffer_done
    /\ TypesOf(requests)
          = <<"capture_output_region", "create_pool", "create_buffer", "copy">>

\* the advertisements the handler has been given: those sent, less the
\* ones still pending
ReceivedAdverts ==
    SubSeq(advertised, 1,
           Len(advertised) - Len(SelectSeq(wire, LAMBDA e : e.type = "Buffer")))

\* the descriptor of an advertisement
DescOf(d) == MkDesc(FrameFormatFrom(d.format), d.width, d.height, d.stride)

\* while formats are collected the descriptor list holds one descriptor per
\* advertisement received, in arrival order
ListIsReceived ==
    (pc = "collect")
        => (frame_formats = [i \in 1..Len(ReceivedAdverts) |-> DescOf(ReceivedAdverts[i])])

\* the notifications that carry no state
InfoTypes == {"Flags", "Damage", "LinuxDmabuf"}

\* a turn of the collection loop that delivers informational notifications
\* only leaves the three cells as they were, and the loop goes on
InfoChangesNothing ==
    (/\ pc = "collect"
     /\ wire # <<>>
     /\ wire' = <<>>
     /\ \A i \in 1..Len(wire) : wire[i].type \in InfoTypes)
        => (/\ frame_formats' = frame_formats
            /\ frame_buffer_done' = frame_buffer_done
            /\ frame_state' = frame_state
            /\ pc' = "collect")

ExactProduct(t, a, b) ==
    \A k \in 0..(2 * U32Bytes - 1) :
        MulByte(a, b, k) = IF k < U32Bytes THEN t[k + 1] ELSE 0

\* C26: for every selected descriptor the memory file is truncated to
\* exactly stride x height bytes, the product as the integers have it: the
\* multiplication neither wraps around nor aborts the call.
C26_RegionIsExactProduct ==
    (frame_format # NoDesc)
        => (/\ panic # "overflow"
            /\ (fdOpens = 1 /\ outcome # ErrOutcome("Truncate"))
                  => ExactProduct(fileLen, frame_format.stride, frame_format.height))

\* C27: the pool and the buffer announced to the compositor describe the
\* memory file exactly: the pool size is the file's byte length, and the
\* buffer's width, height, stride and format are those of the selected
\* descriptor, also for values that do not fit an i32.
C27_PoolAndBufferExact ==
    ("create_pool" \in RequestTypes /\ "create_buffer" \in RequestTypes)
        => (/\ ReqOf("create_pool").size >= 0
            /\ U32(ReqOf("create_pool").size) = fileLen
            /\ ReqOf("create_buffer").width = frame_format.width
            /\ ReqOf("create_buffer").height = frame_format.height
            /\ ReqOf("create_buffer").stride = frame_format.stride
            /\ ReqOf("create_buffer").format = WlFormatInto(frame_format.format))

\* positions of the capture requests in the log
CapturePositions ==
    {i \in 1..Len(requests) :
        requests[i].type \in {"capture_output", "capture_output_region"}}

\* C28: the capture request has the shape the arguments ask for: a region
\* request exactly when a region is supplied, else a whole-output request;
\* the overlay flag sent is 1 for true and 0 for false; a region request
\* carries (region.x - output.x, region.y - output.y) and the region's width
\* and height; a transaction sends exactly one capture request.
C28_CaptureRequestShape ==
    /\ Cardinality(CapturePositions) <= 1
    /\ (pc # "start" /\ outcome # ErrOutcome("NoOutput")) => (CapturePositions = {1})
    /\ (CapturePositions = {1})
          => (/\ (requests[1].type = "capture_output_region") <=> arg_region.some
              /\ (requests[1].type = "capture_output") <=> ~arg_region.some
              /\ arg_overlay_cursor => (requests[1].overlay = 1)
              /\ ~arg_overlay_cursor => (requests[1].overlay = 0)
              /\ requests[1].output = find_wl_output(outputs, arg_output)
              /\ arg_region.some
                    => (/\ requests[1].x = arg_region.x - arg_output.x
                        /\ requests[1].y = arg_region.y - arg_output.y
                        /\ requests[1].width = arg_region.width
                        /\ requests[1].height = arg_region.height))

\* a region of the output at x = 1920 was requested with the cursor overlaid
C28_Witness ==
    /\ pc = "collect"
    /\ arg_region.some
    /\ arg_overlay_cursor
    /\ arg_output.x = 1920
    /\ requests[1].type = "capture_output_region"
    /\ requests[1].overlay = 1
    /\ requests[1].x = 80
    /\ requests[1].y = 100

\* the step that sends copy is taken with no Failed recorded, and a step out
\* of the selection stage taken with Failed recorded returns the
\* capture-failed error with nothing allocated
CopyOnlyWithoutFailed ==
    /\ ("copy" \notin RequestTypes /\ "copy" \in RequestTypes')
          => (~failedRecorded /\ frame_state # "Failed")
    /\ (pc = "setup" /\ pc' # "setup" /\ failedRecorded)
          => (/\ outcome' = ErrOutcome("FrameCopy")
              /\ fdOpens' = 0
              /\ requests' = requests)

\* C29: no copy request is issued on a frame for which Failed has been
\* received: with Failed delivered during format collection the transaction
\* ends with the capture-failed error, allocating no buffer and sending no
\* copy.
C29_NoCopyAfterFailed == [][CopyOnlyWithoutFailed]_vars

\* C30: when sizing the memory file fails, capture_frame returns that
\* error; no pool or buffer is created against the descriptor and no copy is
\* sent; the file is not written, not mapped, and its descriptor is closed.
C30_TruncateFailureStops ==
    (outcome = ErrOutcome("Truncate"))
        => (/\ pc = "done"
            /\ returns = 1
            /\ RequestTypes \cap {"create_pool", "create_buffer", "copy"} = {}
            /\ Len(requests) = 1
            /\ fileLen = U32(0)
            /\ shmData = <<>>
            /\ copied = <<>>
            /\ ~mapped
            /\ ~frameAlive
            /\ fdOpens = 1
            /\ fdCloses = 1)

\* set_len failed on the file made for a selected two-row descriptor
C30_Witness ==
    /\ pc = "done"
    /\ outcome = ErrOutcome("Truncate")
    /\ frame_format = MkDesc("Xrgb8888", 1, 2, 8)
    /\ fdOpens = 1
    /\ Len(requests) = 1

(***************************************************************************)
(* Properties of a session.                                                *)
(***************************************************************************)
\* outputs() has returned the snapshot of the start of the session
SnapshotReturned ==
    /\ outputs = SessionOutputs
    /\ outputs_ret.called => (outputs_ret.value = SessionOutputs)

\* a call of outputs() leaves the request log and the connection as they were
OutputsCallIsLocal ==
    (outputs_ret'.called /\ ~outputs_ret.called)
        => (requests' = requests /\ wire' = wire /\ conn' = conn)

\* C19: after any sequence of capture_frame calls, successful or failed,
\* outputs() returns the outputs of the snapshot taken at connect time, in
\* the same order and with the same fields, and sends no request.
C19_OutputsSnapshot == []SnapshotReturned /\ [][OutputsCallIsLocal]_vars

\* outputs() was called after a capture that returned a Frame and a second
\* one that failed
C19_Witness ==
    /\ calls = 2
    /\ pc = "done"
    /\ prev.kind = "Frame"
    /\ outcome.kind = "Err"
    /\ outputs_ret.called
    /\ outputs_ret.value = SessionOutputs

\* a call of capture_frame starts its transaction with an empty descriptor
\* list, the formats-done flag unset and no terminal state
StartsFresh ==
    (pc = "start" /\ pc' = "collect")
        => (frame_formats' = <<>> /\ ~frame_buffer_done' /\ frame_state' = "None")

\* a repeated transaction that received the advertisements of the first and
\* returned a Frame, as the first did, returned the same descriptor and tag
SameFrameAgain ==
    (/\ calls > 1
     /\ prev.kind = "Frame"
     /\ outcome.kind = "Frame"
     /\ advertised = prev.advertised)
        => (/\ outcome.frame_format = prev.frame_format
            /\ outcome.frame_color_type = prev.frame_color_type)

\* C20: every transaction of a session starts fresh, whatever the one
\* before it received and however it ended, and two transactions with the
\* same output and region that receive the same advertisements and both
\* return a Frame return the same format, width, height, stride and color tag.
C20_TransactionsIndependent == []SameFrameAgain /\ [][StartsFresh]_vars

\* the second transaction returned a Frame after the same two
\* advertisements as the first, which had left its cells filled
C20_Witness ==
    /\ calls = 2
    /\ pc = "done"
    /\ prev.kind = "Frame"
    /\ outcome.kind = "Frame"
    /\ Len(advertised) = 2
    /\ advertised = prev.advertised
    /\ outcome.frame_format = prev.frame_format

(***************************************************************************)
(* Properties of the resolution helpers.                                   *)
(***************************************************************************)
\* C9: a contains b exactly when b's corners lie within a's bounds, equal
\* bounds included; for the output rectangle (0,0,1920,1080) the region
\* (0,0,1920,1080) is contained, (1900,1060,50,50) and (-1,0,10,10) are not.
C9_Containment ==
    (q_result.op = "contains")
        => (/\ q_result.ok <=>
                  (/\ q_bounds.x <= q_region.x
                   /\ q_bounds.y <= q_region.y
                   /\ q_region.x + q_region.width <= q_bounds.x + q_bounds.width
                   /\ q_region.y + q_region.height <= q_bounds.y + q_bounds.height)
            /\ (q_bounds = RegionNew(0, 0, 1920, 1080)
                    /\ q_region = RegionNew(0, 0, 1920, 1080)) => q_result.ok
            /\ (q_bounds = RegionNew(0, 0, 1920, 1080)
                    /\ q_region = RegionNew(1900, 1060, 50, 50)) => ~q_result.ok
            /\ (q_bounds = RegionNew(0, 0, 1920, 1080)
                    /\ q_region = RegionNew(-1, 0, 10, 10)) => ~q_result.ok)

\* a region with the bounds of the rectangle itself was found contained
C9_Witness ==
    /\ q_result.op = "contains"
    /\ q_region = q_bounds
    /\ q_result.ok

\* positions of the outputs with the given name
NamedPositions(name) == {i \in 1..Len(outputs) : outputs[i].name = name}

\* the names of the outputs, in order
OutputNames == [i \in 1..Len(outputs) |-> outputs[i].name]

\* C10: with a name, get_output returns the first output in order whose
\* name is equal, or fails if there is none; without a name it returns the
\* first output, or fails on an empty list.  For [DP-1, eDP-1]: DP-1
\* resolves to DP-1, HDMI-1 fails, no name resolves to DP-1.
C10_GetOutput ==
    (q_result.op = "get_output")
        => (/\ (q_name.some /\ NamedPositions(q_name.value) # {})
                  => (q_result.ok /\ q_result.idx = MinOf(NamedPositions(q_name.value)))
            /\ (q_name.some /\ NamedPositions(q_name.value) = {}) => ~q_result.ok
            /\ (~q_name.some /\ outputs # <<>>) => (q_result.ok /\ q_result.idx = 1)
            /\ (~q_name.some /\ outputs = <<>>) => ~q_result.ok
            /\ (OutputNames = <<"DP-1", "eDP-1">>)
                  => (/\ q_name = SomeName("DP-1")
                            => (q_result.ok /\ outputs[q_result.idx].name = "DP-1")
                      /\ q_name = SomeName("HDMI-1") => ~q_result.ok
                      /\ q_name = NoName
                            => (q_result.ok /\ outputs[q_result.idx].name = "DP-1")))

\* a name borne by two outputs resolved to the first of them
C10_Witness ==
    /\ q_result.op = "get_output"
    /\ q_name.some
    /\ NamedPositions(q_name.value) = {1, 2}
    /\ outputs[1] # outputs[2]
    /\ q_result.ok
    /\ q_result.idx = 1

\* positions of the outputs whose bounding rectangle (x, y, width, height)
\* holds the region, its own bounds included
ContainingPositions(region) ==
    {i \in 1..Len(outputs) :
        /\ outputs[i].x <= region.x
        /\ outputs[i].y <= region.y
        /\ region.x + region.width <= outputs[i].x + outputs[i].width
        /\ region.y + region.height <= outputs[i].y + outputs[i].height}

\* C11: find_output_from_region returns the first output in discovery order
\* whose bounding rectangle fully contains the region and fails when no
\* single output contains it, as for a region that spans two adjacent
\* outputs; an output it returns always contains the region.
C11_FindOutputFromRegion ==
    (q_result.op = "find_output_from_region")
        => (/\ (ContainingPositions(q_region) # {})
                  => (q_result.ok /\ q_result.idx = MinOf(ContainingPositions(q_region)))
            /\ (ContainingPositions(q_region) = {}) => ~q_result.ok
            /\ q_result.ok => q_result.idx \in ContainingPositions(q_region)
            /\ (q_region = RegionNew(1900, 0, 40, 40)
                    /\ \A i \in 1..Len(outputs) :
                          OutputRegion(outputs[i]) \in
                              {RegionNew(0, 0, 1920, 1080), RegionNew(1920, 0, 1280, 720),
                               RegionNew(1920, 0, 1920, 1080)})
                  => ~q_result.ok)

\* a region two different outputs contain resolved to the first of them
C11_Witness ==
    /\ q_result.op = "find_output_from_region"
    /\ ContainingPositions(q_region) = {1, 2}
    /\ outputs[1] # outputs[2]
    /\ q_result.ok
    /\ q_result.idx = 1

(***************************************************************************)
(* Properties of the converters.                                           *)
(***************************************************************************)
\* the full pixels of the buffer given to the converter, counted from 0
PixelIndexes == 0..((Len(c_data) \div 4) - 1)

\* byte j (1..4) of pixel k of a buffer
PixelByte(data, k, j) == data[4 * k + j]

\* C12: for each of the six FrameFormat values and every buffer,
\* convert_inplace returns the color tag RGBA8 and the buffer has the
\* length it had before.
C12_TagAndLength ==
    c_out.done
        => (/\ c_format \in FrameFormats
            /\ c_out.color = "Rgba8"
            /\ Len(c_out.data) = Len(c_data))

\* a 10-bit buffer of one pixel and three more bytes was converted
C12_Witness ==
    /\ c_out.done
    /\ c_format = "Abgr2101010"
    /\ Len(c_data) = 7
    /\ c_out.data # c_data
    /\ c_out.color = "Rgba8"

\* C13: for Xrgb8888 and Argb8888 every 4-byte pixel [b0,b1,b2,b3] becomes
\* [b2,b1,b0,b3]; [16,32,48,64] (0x10,0x20,0x30,0x40) becomes [48,32,16,64].
C13_SwapRedBlue ==
    (c_out.done /\ c_format \in {"Xrgb8888", "Argb8888"})
        => \A k \in PixelIndexes :
              /\ PixelByte(c_out.data, k, 1) = PixelByte(c_data, k, 3)
              /\ PixelByte(c_out.data, k, 2) = PixelByte(c_data, k, 2)
              /\ PixelByte(c_out.data, k, 3) = PixelByte(c_data, k, 1)
              /\ PixelByte(c_out.data, k, 4) = PixelByte(c_data, k, 4)
              /\ (SubSeq(c_data, 4 * k + 1, 4 * k + 4) = <<16, 32, 48, 64>>)
                    => (SubSeq(c_out.data, 4 * k + 1, 4 * k + 4) = <<48, 32, 16, 64>>)

\* the example pixel was converted as the second pixel of an Argb8888 buffer
C13_Witness ==
    /\ c_out.done
    /\ c_format = "Argb8888"
    /\ Len(c_data) = 8
    /\ SubSeq(c_data, 5, 8) = <<16, 32, 48, 64>>
    /\ SubSeq(c_out.data, 5, 8) = <<48, 32, 16, 64>>

\* bits 0..29 of the little-endian word of pixel k
Low30(data, k) ==
    PixelByte(data, k, 1) + 256 * PixelByte(data, k, 2) + 65536 * PixelByte(data, k, 3)
        + 16777216 * (PixelByte(data, k, 4) % 64)

\* C14: for Xbgr2101010 and Abgr2101010 every pixel, read as a little-endian
\* word w, becomes [(w>>2)&255, (w>>12)&255, (w>>22)&255, 255]: the top 8
\* bits of each 10-bit channel, nothing of bits 30 and 31, alpha 255.  The
\* channel at bit 20 gives 255 when all its ten bits are set and 0 when it
\* holds 1.
C14_TenBitTruncation ==
    (c_out.done /\ c_format \in {"Xbgr2101010", "Abgr2101010"})
        => \A k \in PixelIndexes :
              LET w == Low30(c_data, k)
              IN  /\ PixelByte(c_out.data, k, 1) = (w \div 4) % 256
                  /\ PixelByte(c_out.data, k, 2) = (w \div 4096) % 256
                  /\ PixelByte(c_out.data, k, 3) = (w \div 4194304) % 256
                  /\ PixelByte(c_out.data, k, 4) = 255
                  /\ (w \div 1048576 = 1023) => (PixelByte(c_out.data, k, 3) = 255)
                  /\ (w \div 1048576 = 1) => (PixelByte(c_out.data, k, 3) = 0)

\* the full channel and the channel holding 1, both at bit 20, were converted
C14_Witness ==
    /\ c_out.done
    /\ c_format = "Xbgr2101010"
    /\ c_data = <<0, 0, 240, 63, 0, 0, 16, 0>>
    /\ c_out.data = <<0, 0, 255, 255, 0, 0, 0, 255>>

\* C15: for Xbgr8888 and Abgr8888 every byte of the buffer is the same
\* after convert_inplace.
C15_Identity ==
    (c_out.done /\ c_format \in {"Xbgr8888", "Abgr8888"})
        => (c_out.data = c_data)

\* an Abgr8888 buffer of two different pixels went through the converter
C15_Witness ==
    /\ c_out.done
    /\ c_format = "Abgr8888"
    /\ Len(c_data) = 8
    /\ SubSeq(c_data, 1, 4) # SubSeq(c_data, 5, 8)
    /\ c_data[1] # c_data[3]
    /\ c_out.data = c_data

(***************************************************************************)
(* Properties of the front-end and the backend worker.                     *)
(***************************************************************************)
\* C16: the worker handles one command at a time and in the order sent:
\* the commands received are the first of the commands sent, the others
\* still wait on the channel; at most one received command is not handled
\* to its end, and that only while the worker is in its handling; the
\* results on the channel answer commands whose handling is over, in order.
C16_OneCommandAtATime ==
    /\ sentCmds = recvCmds \o cmd_chan
    /\ doneCmds <= Len(recvCmds)
    /\ Len(recvCmds) <= doneCmds + 1
    /\ (worker \in {"spawned", "recv", "finished"}) => (Len(recvCmds) = doneCmds)
    /\ (worker = "handling")
          => (Len(recvCmds) = doneCmds + 1 /\ cur_cmd = recvCmds[Len(recvCmds)])
    /\ \A i \in 1..Len(res_chan) :
          /\ res_chan[i].for <= doneCmds
          /\ \A j \in 1..Len(res_chan) : (i < j) => (res_chan[i].for < res_chan[j].for)

\* the worker handles the second command while a different third one waits
C16_Witness ==
    /\ worker = "handling"
    /\ doneCmds = 1
    /\ Len(cmd_chan) = 1
    /\ cmd_chan[1] # cur_cmd
    /\ cur_cmd = sentCmds[2]

\* C17: the UI thread never waits inside update: not for the worker's
\* result, and not in a capture it runs itself.
C17_UiNeverBlocks == ui_pc \notin {"recv_result", "capturing"}

\* results on the channel that report an error
ErrorResults == {i \in 1..Len(res_chan) : res_chan[i].type = "Error"}

\* C18: when the handling of a capture command has met an error (no output,
\* no focused window, no containing output, a failed capture_frame), the
\* error is reported on the result channel and the worker thread has not
\* ended: it handles the next command.
C18_FailureReported ==
    (failedCmds > 0)
        => (/\ worker \in {"recv", "handling"}
            /\ ErrorResults # {})

(***************************************************************************)
(* Properties of create_shm_fd.                                            *)
(***************************************************************************)
\* a turn of the memfd_create loop is taken
MemfdTurn == shm_pc = "memfd" /\ shm_turns' = shm_turns + 1

\* what create_shm_fd does after memfd_create has returned shm_errno'
MemfdTurnOutcome ==
    CASE shm_errno' = "Ok" ->
           /\ shm_pc' = "returned"
           /\ shm_ret' = [ok |-> TRUE, fd |-> NewFd, err |-> ""]
           /\ shm_fds' = {NewFd}
           /\ shm_sealed' \in SealResults
      [] shm_errno' = "EINTR" ->
           /\ shm_pc' = "memfd"
           /\ shm_ret' = NoShmRet
      [] shm_errno' = "ENOSYS" ->
           /\ shm_pc' = "shm_open"
           /\ shm_ret' = NoShmRet
      [] OTHER ->
           /\ shm_pc' = "returned"
           /\ shm_ret' = [ok |-> FALSE, fd |-> "", err |-> shm_errno']
           /\ mem_file_handle' = <<>>
           /\ shm_created' = {}

\* C31: in the memfd_create loop a success returns the descriptor whatever
\* the sealing returned, EINTR is retried, ENOSYS alone enters the shm_open
\* fallback, and every other error is returned without trying the fallback.
C31_PrimaryStrategy == [][MemfdTurn => MemfdTurnOutcome]_vars

\* the descriptor is returned after an interrupted first turn although the
\* seals could not be applied
C31_Witness ==
    /\ shm_pc = "returned"
    /\ mem_file_handle = <<>>
    /\ shm_turns > 1
    /\ shm_ret.ok
    /\ shm_sealed = "EINVAL"

\* C32: when the shm_open fallback returns a descriptor, no name this call
\* created exists any more; when it returns an error, no descriptor this
\* call opened is still open.
C32_FallbackLeavesNothing ==
    (shm_pc = "returned" /\ mem_file_handle # <<>>)
        => IF shm_ret.ok
           THEN shm_created # {} /\ shm_created \cap shm_names = {} /\ shm_fds = {shm_ret.fd}
           ELSE shm_fds = {}

\* shm_open created the object, shm_unlink failed, and the fallback has
\* returned the error
C32_Witness ==
    /\ shm_pc = "returned"
    /\ shm_created # {}
    /\ shm_created \subseteq shm_names
    /\ ~shm_ret.ok
    /\ shm_ret.err \in UnlinkResults \cup CloseResults

\* the fallback has returned a descriptor whose name is unlinked
C32_HandleReturned ==
    /\ shm_pc = "returned"
    /\ shm_created # {}
    /\ shm_ret.ok

\* C33: after a name collision (EEXIST) the next turn of the shm_open loop
\* uses a name that differs from the colliding one.
C33_CollisionRenames ==
    [][(shm_pc = "shm_open" /\ shm_turns' = shm_turns + 1 /\ shm_errno' = "EEXIST")
          => (mem_file_handle' # mem_file_handle)]_vars

(***************************************************************************)
(* Properties of discovery.                                                *)
(***************************************************************************)
\* the Output the compositor describes for a display object
DescribedOutput(d) == [MkOutput(d.name, d.x, d.y, d.width, d.height) EXCEPT !.scale = d.scale]

\* C34: after discovery every Output of the snapshot has the name, logical
\* position and logical size of its display object's xdg_output and the
\* scale factor of that display object's scale event.
C34_OutputsAsDescribed ==
    (disc_pc = "ready")
        => \A i \in 1..Len(final_outputs) :
              final_outputs[i].output = DescribedOutput(displays[final_outputs[i].raw])

\* C35: after discovery the snapshot holds one Output per advertised
\* display object, in advertisement order.
C35_OneOutputPerDisplay ==
    (disc_pc = "ready")
        => ([i \in 1..Len(final_outputs) |-> final_outputs[i].raw]
               = [i \in 1..Len(displays) |-> i])

\* C36: the capture request for an Output of the snapshot goes to the
\* display object that Output was discovered from; for an Output with an
\* unknown name capture_frame fails and sends no request.
C36_RequestOnGivenDisplay ==
    cap_req.asked
        => IF cap_req.given # 0
           THEN cap_req.ok /\ cap_req.sent = cap_req.given
           ELSE ~cap_req.ok /\ cap_req.sent = 0

(***************************************************************************)
(* Properties of the worker's commands.                                    *)
(***************************************************************************)
\* the result each command is to be answered with
ResultTypeOf(type) ==
    CASE type = "ListOutputs" -> "Outputs"
      [] type \in {"CaptureScreen", "CaptureWindow"} -> "FrameCaptured"
      [] type = "SaveToDisk" -> "SaveToDiskSuccess"
      [] OTHER -> "None"

\* the worker finishes handling a command that is to be answered
AnsweredCommandEnds ==
    /\ worker = "handling"
    /\ ResultTypeOf(cur_cmd.type) # "None"
    /\ doneCmds' = doneCmds + 1

\* one result of the command's kind, for the command just handled, is
\* appended to the result channel
OneResultSent ==
    /\ Len(res_chan') = Len(res_chan) + 1
    /\ SubSeq(res_chan', 1, Len(res_chan)) = res_chan
    /\ res_chan'[Len(res_chan')].type = ResultTypeOf(cur_cmd.type)
    /\ res_chan'[Len(res_chan')].for = Len(recvCmds)

\* C37: each ListOutputs, CaptureScreen, CaptureWindow and SaveToDisk
\* command the worker finishes handling puts exactly one result of its kind
\* on the result channel, behind the results of the commands before it.
C37_OneResultPerCommand == [][AnsweredCommandEnds => OneResultSent]_vars

\* C38: the frame that answers a CaptureScreen(name) command was captured
\* on the output of that name.
C38_CapturesNamedOutput ==
    \A i \in 1..Len(res_chan) :
       (res_chan[i].type = "FrameCaptured" /\ recvCmds[res_chan[i].for].type = "CaptureScreen")
           => (res_chan[i].output = recvCmds[res_chan[i].for].name)

(***************************************************************************)
(* Properties of the Ppm encoding.                                         *)
(***************************************************************************)
\* C39: the channel drop of the Ppm arm yields 3 x width x height bytes:
\* the first three bytes of each visible pixel, row by row.
C39_Rgb8IsVisiblePixels ==
    enc_out.done
        => LET width == enc_frame.frame_format.width
               height == enc_frame.frame_format.height
               stride == enc_frame.frame_format.stride
           IN  /\ Len(enc_out.data) = 3 * width * height
               /\ \A row \in 0..(height - 1), col \in 0..(width - 1), k \in 1..3 :
                     enc_out.data[3 * (row * width + col) + k]
                         = enc_frame.frame_mmap[row * stride + 4 * col + k]

====
